---- MODULE Spec2Model ----
(***************************************************************************)
(* Content-selection pipeline of tools/wikipedia_ja.py: text               *)
(* normalisation, scoring-term extraction, fame / uniqueness / importance  *)
(* scoring and the two selection policies (_select_by_importance and       *)
(* _select_by_importance_legacy).                                          *)
(*                                                                         *)
(* A Python str is a sequence of characters; a character is a TLA+ string  *)
(* naming it.  Non-ASCII characters are written by a romanised name        *)
(* ("maru" is the sentence terminator, "lq2"/"rq2" the corner brackets,    *)
(* "ka_a" the katakana A, ...).                                            *)
(***************************************************************************)
EXTENDS Integers, Sequences, FiniteSets, TLC

(***************************************************************************)
(* Characters and character classes used by the regular expressions.       *)
(***************************************************************************)
NBSP == "nbsp"
\* what \s matches in a str pattern (space, tab, newline, no-break space)
Whitespace == {" ", "\t", "\n", NBSP}
\* the class [ァ-ヴー]
Katakana == {"ka_a", "ka_ni", "ka_me", "ka_ge", "ka_mu", "ka_ru", "ka_ba",
             "ka_ko", "ka_do", "ka_zo", "ka_ro", "ka_long"}
\* the class [『「]
OpenQuote == {"lq1", "lq2"}
\* the class [』」]
CloseQuote == {"rq1", "rq2"}
\* the class \d
Digit == {"0", "1", "2", "3", "4", "5", "6", "7", "8", "9"}
\* the class [A-Z]
Upper == {"A", "B", "C", "I", "J", "O", "S", "Z"}

(***************************************************************************)
(* Generic sequence helpers.                                               *)
(***************************************************************************)
Max(a, b) == IF a >= b THEN a ELSE b
Min(a, b) == IF a <= b THEN a ELSE b

\* Python `p in s` for two strings
Contains(p, s) ==
    \E i \in 0..(Len(s) - Len(p)) : \A k \in 1..Len(p) : s[i + k] = p[k]

\* Python `x in lst` for a list
InList(x, lst) == \E i \in 1..Len(lst) : lst[i] = x

\* the length of the run of characters of class cls that starts at position i
RECURSIVE RunLen(_, _, _)
RunLen(s, i, cls) ==
    IF i > Len(s) \/ s[i] \notin cls THEN 0 ELSE 1 + RunLen(s, i + 1, cls)

\* str.strip() on text whose whitespace is already normalised to " "
RECURSIVE StripLeft(_)
StripLeft(s) ==
    IF s # <<>> /\ s[1] \in Whitespace THEN StripLeft(Tail(s)) ELSE s

RECURSIVE StripRight(_)
StripRight(s) ==
    IF s # <<>> /\ s[Len(s)] \in Whitespace
    THEN StripRight(SubSeq(s, 1, Len(s) - 1))
    ELSE s

Strip(s) == StripRight(StripLeft(s))

\* re.sub(r"\s+", " ", text): every maximal whitespace run becomes one space
RECURSIVE CollapseWhitespace(_)
CollapseWhitespace(s) ==
    IF s = <<>> THEN <<>>
    ELSE IF s[1] \in Whitespace
         THEN <<" ">> \o CollapseWhitespace(SubSeq(s, 1 + RunLen(s, 1, Whitespace), Len(s)))
         ELSE <<s[1]>> \o CollapseWhitespace(Tail(s))

\* text.replace(NBSP, " ")
RECURSIVE ReplaceNbsp(_)
ReplaceNbsp(s) ==
    IF s = <<>> THEN <<>>
    ELSE <<IF s[1] = NBSP THEN " " ELSE s[1]>> \o ReplaceNbsp(Tail(s))

\* _clean_text
CleanText(text) == Strip(CollapseWhitespace(ReplaceNbsp(text)))

\* str.replace(" ", "")
RECURSIVE RemoveSpaces(_)
RemoveSpaces(s) ==
    IF s = <<>> THEN <<>>
    ELSE IF s[1] = " " THEN RemoveSpaces(Tail(s))
         ELSE <<s[1]>> \o RemoveSpaces(Tail(s))

(***************************************************************************)
(* _extract_scoring_term.  None is the Python None where a str is expected: *)
(* a value that is no string of the alphabet.                              *)
(***************************************************************************)
None == <<"None">>

\* positions where r"[『「]([^『「』」]{2,40})[』」]" matches: an opening
\* bracket, then 2..40 characters that are no bracket, then a closing bracket
QuotedMatchAt(s, i) ==
    LET n == RunLen(s, i + 1, {c \in {s[k] : k \in 1..Len(s)} : c \notin OpenQuote \cup CloseQuote})
    IN  /\ s[i] \in OpenQuote
        /\ n >= 2 /\ n <= 40
        /\ i + n + 1 <= Len(s)
        /\ s[i + n + 1] \in CloseQuote

\* positions where r"([ァ-ヴー]{4,30})" matches
KatakanaMatchAt(s, i) == RunLen(s, i, Katakana) >= 4

\* number of characters r"(?:-\d+)*" consumes from position i
RECURSIVE DashGroupsLen(_, _)
DashGroupsLen(s, i) ==
    IF i <= Len(s) /\ s[i] = "-" /\ RunLen(s, i + 1, Digit) >= 1
    THEN 1 + RunLen(s, i + 1, Digit) + DashGroupsLen(s, i + 1 + RunLen(s, i + 1, Digit))
    ELSE 0

\* length of the match of r"(ISO\s*\d{3,6}(?:-\d+)*)" at position i, 0 if none
IsoMatchLen(s, i) ==
    IF i + 2 <= Len(s) /\ SubSeq(s, i, i + 2) = <<"I", "S", "O">>
    THEN LET w == RunLen(s, i + 3, Whitespace)
             d == Min(6, RunLen(s, i + 3 + w, Digit))
         IN  IF d >= 3 THEN 3 + w + d + DashGroupsLen(s, i + 3 + w + d) ELSE 0
    ELSE 0

\* length of the match of r"(JIS\s*[A-Z]\s*\d{3,6})" at position i, 0 if none
JisMatchLen(s, i) ==
    IF i + 2 <= Len(s) /\ SubSeq(s, i, i + 2) = <<"J", "I", "S">>
    THEN LET w1 == RunLen(s, i + 3, Whitespace)
             u  == i + 3 + w1
         IN  IF u <= Len(s) /\ s[u] \in Upper
             THEN LET w2 == RunLen(s, u + 1, Whitespace)
                      d  == Min(6, RunLen(s, u + 1 + w2, Digit))
                  IN  IF d >= 3 THEN 3 + w1 + 1 + w2 + d ELSE 0
             ELSE 0
    ELSE 0

\* re.search: the leftmost of the positions where the pattern matches, 0 if
\* there is none
FirstPos(hits) ==
    IF hits = {} THEN 0 ELSE CHOOSE i \in hits : \A j \in hits : i <= j

IsoAt(s, i) == IsoMatchLen(s, i) > 0
JisAt(s, i) == JisMatchLen(s, i) > 0

ExtractScoringTerm(text) ==
    LET s  == CleanText(text)
        q  == FirstPos({i \in 1..Len(s) : QuotedMatchAt(s, i)})
        qn == RunLen(s, q + 1, {c \in {s[k] : k \in 1..Len(s)} : c \notin OpenQuote \cup CloseQuote})
        qt == Strip(SubSeq(s, q + 1, q + qn))
        k  == FirstPos({i \in 1..Len(s) : KatakanaMatchAt(s, i)})
        kt == SubSeq(s, k, k + Min(30, RunLen(s, k, Katakana)) - 1)
        o  == FirstPos({i \in 1..Len(s) : IsoAt(s, i)})
        j  == FirstPos({i \in 1..Len(s) : JisAt(s, i)})
    IN  IF s = <<>> THEN None
        ELSE IF q > 0 /\ Len(qt) >= 2 /\ Len(qt) <= 40 THEN qt
        ELSE IF k > 0 THEN kt
        ELSE IF o > 0 THEN RemoveSpaces(SubSeq(s, o, o + IsoMatchLen(s, o) - 1))
        ELSE IF j > 0 THEN CleanText(SubSeq(s, j, j + JisMatchLen(s, j) - 1))
        ELSE None

(***************************************************************************)
(* Heuristic pre-scores (_heuristic_property_score, _heuristic_other_score) *)
(***************************************************************************)
\* _PROPERTY_KEYWORDS, one character per romanised name
PROPERTY_KEYWORDS == <<
    <<"hei", "hou", "suu">>,            \* square number
    <<"ritsu", "hou", "suu">>,          \* cube number
    <<"en", "shuu", "ritsu2">>,         \* pi (the ratio)
    <<"kin", "ji">>,                    \* approximation
    <<"go", "sa">>,                     \* error
    <<"pi">>,
    <<"sqrt">>,
    <<"hei", "hou", "kon">>,            \* square root
    <<"en", "shuu">>,                   \* circumference
    <<"ten">>,                          \* point
    <<"ryou", "iki">>,                  \* region
    <<"shita">>,                        \* lower
    <<"matsu", "bi">>,                  \* trailing
    <<"keta">>,                         \* digit
    <<"ka_zo", "ka_ro", "me">>,         \* repdigit
    <<"yui", "itsu">>,                  \* unique
    <<"hi_ta", "hi_da", "ichi", "hi_tsu">>,
    <<"hi_no", "hi_mi">>,               \* "nomi"
    <<"hi_da", "hi_ke">>,               \* "dake"
    <<"gou", "dou">>,                   \* congruent
    <<"jou", "yo">>,                    \* remainder
    <<"m", "o", "d">>,
    <<"taga", "hi_i", "hi_ni">> >>

\* _OTHER_KEYWORDS
OTHER_KEYWORDS == <<
    <<"gen", "shi", "ban", "gou2">>,    \* atomic number
    <<"gen2", "so">>,                   \* element
    <<"saku", "hin">>,                  \* work
    <<"shou", "setsu">>,                \* novel
    <<"ei", "ga">>,                     \* film
    <<"ka_a", "ka_ni", "ka_me">>,       \* anime
    <<"ka_ge", "ka_long", "ka_mu">>,    \* game
    <<"man", "ga">>,                    \* manga
    <<"kyoku">>,                        \* song
    <<"ka_a", "ka_ru", "ka_ba", "ka_mu">>,  \* album
    <<"tan", "jou2">>,                  \* birth
    <<"ji2", "ken">>,                   \* incident
    <<"ji2", "ko">>,                    \* accident
    <<"jou3", "yaku">>,                 \* treaty
    <<"ki", "kaku">>,                   \* standard
    <<"ka_ko", "ka_long", "ka_do">> >>  \* code

\* sum of 3 for every keyword of kws that occurs in s
KeywordScore(s, kws) ==
    3 * Cardinality({i \in 1..Len(kws) : Contains(kws[i], s)})

HasAnyChar(s, chars) == \E i \in 1..Len(s) : s[i] \in chars

HeuristicPropertyScore(s) ==
    KeywordScore(s, PROPERTY_KEYWORDS)
    + (IF \/ Contains(<<"hi_da", "hi_ke">>, s)
          \/ Contains(<<"hi_no", "hi_mi">>, s)
          \/ Contains(<<"hi_ta", "hi_da">>, s) THEN 2 ELSE 0)
    + (IF HasAnyChar(s, {"div", "/", "times", "^", "=", "sqrt", "pi"}) THEN 2 ELSE 0)
    + (IF Len(s) >= 60 THEN 1 ELSE 0)

HeuristicOtherScore(s) ==
    KeywordScore(s, OTHER_KEYWORDS)
    + (IF HasAnyChar(s, {":", "fwcolon"}) THEN 2 ELSE 0)
    + (IF HasAnyChar(s, Digit) THEN 1 ELSE 0)
    + (IF \E i \in 1..Len(s) : RunLen(s, i, Katakana) >= 4 THEN 1 ELSE 0)

Heur(kind, s) ==
    IF kind = "property" THEN HeuristicPropertyScore(s) ELSE HeuristicOtherScore(s)

(***************************************************************************)
(* Fame, uniqueness and importance.                                        *)
(***************************************************************************)
IMPORTANCE_THRESHOLD == 30
MAX_SEARCH_QUERIES_PER_NUMBER == 6

\* int(round(min(1.0, math.log10(n) / 5.0) * 9)) for an integer n >= 1.
\* round(9*log10(n)/5) >= j  iff  n^18 >= 10^(5*(2j-1)); the least such n
\* for j = 1..9 are the entries below (no n gives a tie at .5, and
\* min(1.0, .) caps the value at 9).
FameSteps == <<2, 7, 25, 88, 317, 1137, 4085, 14678, 52750>>
RoundNineFifthsLog10(n) ==
    Cardinality({j \in 1..Len(FameSteps) : n >= FameSteps[j]})

\* _totalhits_to_fame_score
TotalhitsToFameScore(totalhits) ==
    IF totalhits <= 0 THEN 1
    ELSE Max(1, Min(10, 1 + RoundNineFifthsLog10(totalhits + 1)))

\* int(math.ceil(math.log10(n) * 3)) for 1 <= n <= 2154: the least k with
\* n^3 <= 10^k (10 when n^3 > 10^9)
Pow10(k) == IF k = 0 THEN 1 ELSE
            IF k = 1 THEN 10 ELSE
            IF k = 2 THEN 100 ELSE
            IF k = 3 THEN 1000 ELSE
            IF k = 4 THEN 10000 ELSE
            IF k = 5 THEN 100000 ELSE
            IF k = 6 THEN 1000000 ELSE
            IF k = 7 THEN 10000000 ELSE
            IF k = 8 THEN 100000000 ELSE 1000000000
\* mutant of CeilThreeLog10: the floor is taken, math.floor for math.ceil
CeilThreeLog10_Floor(n) ==
    Cardinality({k \in 1..9 : n * n * n >= Pow10(k)})

CeilThreeLog10(n) ==
    IF \E k \in 0..9 : n * n * n <= Pow10(k)
    THEN CHOOSE k \in 0..9 : /\ n * n * n <= Pow10(k)
                             /\ \A j \in 0..(k - 1) : n * n * n > Pow10(j)
    ELSE 10

\* _fetch_wikipedia_search_totalhits; net maps a query to the outcome of the
\* request: raises is TRUE when _http_get_json raises, else totalhits is
\* the field of the response (-1 stands for one that is absent or no int).
\* The value tells whether the exception leaves the function.
FetchWikipediaSearchTotalhits(query, net) ==
    LET q == CleanText(query)
    IN  IF q = <<>> THEN [raised |-> FALSE, value |-> 0]
        ELSE IF net[q].raises THEN [raised |-> TRUE, value |-> 0]
        ELSE IF net[q].totalhits >= 0 THEN [raised |-> FALSE, value |-> net[q].totalhits]
        ELSE [raised |-> FALSE, value |-> 0]

\* dict.get(key, default)
Get(d, key, default) == IF key \in DOMAIN d THEN d[key] ELSE default

\* d[key] = value
Put(d, key, value) == [k \in DOMAIN d \cup {key} |-> IF k = key THEN value ELSE d[k]]

\* mutant of EstimateFameScore: the cache is looked up before the offline
\* and allow_fetch flags are
EstimateFameScore_CacheFirst(term, offline, searchhits_cache, allow_fetch, net) ==
    LET t == IF term = None THEN <<>> ELSE CleanText(term)
        nochange(score) == [score |-> score, cache |-> searchhits_cache, queries |-> <<>>]
    IN  IF term = None THEN nochange(4)
        ELSE IF t = <<>> THEN nochange(4)
        ELSE IF t \in DOMAIN searchhits_cache
             THEN nochange(TotalhitsToFameScore(searchhits_cache[t]))
        ELSE IF offline \/ ~allow_fetch
             THEN IF \E i \in 1..Len(t) : RunLen(t, i, Katakana) >= 4 THEN nochange(6)
                  ELSE IF \/ Contains(<<"I", "S", "O">>, t)
                          \/ Contains(<<"J", "I", "S">>, t) THEN nochange(6)
                  ELSE nochange(5)
        ELSE LET r == FetchWikipediaSearchTotalhits(t, net)
                 totalhits == IF r.raised THEN 0 ELSE r.value
             IN  [score |-> TotalhitsToFameScore(totalhits),
                  cache |-> Put(searchhits_cache, t, totalhits),
                  queries |-> <<t>>]

\* mutant of EstimateFameScore: a request that failed leaves no cache entry
EstimateFameScore_ForgetsFailure(term, offline, searchhits_cache, allow_fetch, net) ==
    LET t == IF term = None THEN <<>> ELSE CleanText(term)
        nochange(score) == [score |-> score, cache |-> searchhits_cache, queries |-> <<>>]
    IN  IF term = None THEN nochange(4)
        ELSE IF t = <<>> THEN nochange(4)
        ELSE IF offline \/ ~allow_fetch
             THEN IF \E i \in 1..Len(t) : RunLen(t, i, Katakana) >= 4 THEN nochange(6)
                  ELSE IF \/ Contains(<<"I", "S", "O">>, t)
                          \/ Contains(<<"J", "I", "S">>, t) THEN nochange(6)
                  ELSE nochange(5)
        ELSE IF t \in DOMAIN searchhits_cache
             THEN nochange(TotalhitsToFameScore(searchhits_cache[t]))
        ELSE LET r == FetchWikipediaSearchTotalhits(t, net)
             IN  [score |-> TotalhitsToFameScore(IF r.raised THEN 0 ELSE r.value),
                  cache |-> IF r.raised THEN searchhits_cache
                            ELSE Put(searchhits_cache, t, r.value),
                  queries |-> <<t>>]

\* _estimate_fame_score: the score, the search-hit cache it leaves and the
\* queries it sent
EstimateFameScore(term, offline, searchhits_cache, allow_fetch, net) ==
    LET t == IF term = None THEN <<>> ELSE CleanText(term)
        nochange(score) == [score |-> score, cache |-> searchhits_cache, queries |-> <<>>]
    IN  IF term = None THEN nochange(4)
        ELSE IF t = <<>> THEN nochange(4)
        ELSE IF offline \/ ~allow_fetch
             THEN IF \E i \in 1..Len(t) : RunLen(t, i, Katakana) >= 4 THEN nochange(6)
                  ELSE IF \/ Contains(<<"I", "S", "O">>, t)
                          \/ Contains(<<"J", "I", "S">>, t) THEN nochange(6)
                  ELSE nochange(5)
        ELSE IF t \in DOMAIN searchhits_cache
             THEN nochange(TotalhitsToFameScore(searchhits_cache[t]))
        ELSE LET r == FetchWikipediaSearchTotalhits(t, net)
                 totalhits == IF r.raised THEN 0 ELSE r.value
             IN  [score |-> TotalhitsToFameScore(totalhits),
                  cache |-> Put(searchhits_cache, t, totalhits),
                  queries |-> <<t>>]

\* mutant of EstimateUniquenessScore: the score is not clamped
EstimateUniquenessScore_Unclamped(term, term_freq) ==
    LET t == IF term = None THEN <<>> ELSE CleanText(term)
        freq == Get(term_freq, t, 0)
    IN  IF term = None THEN 4
        ELSE IF t = <<>> THEN 4
        ELSE 11 - CeilThreeLog10(freq + 1)

\* mutant of EstimateUniquenessScore: the score grows with the logarithm
EstimateUniquenessScore_Growing(term, term_freq) ==
    LET t == IF term = None THEN <<>> ELSE CleanText(term)
        freq == Get(term_freq, t, 0)
    IN  IF term = None THEN 4
        ELSE IF t = <<>> THEN 4
        ELSE Max(1, Min(10, 1 + CeilThreeLog10(freq + 1)))

\* _estimate_uniqueness_score
EstimateUniquenessScore(term, term_freq) ==
    LET t == IF term = None THEN <<>> ELSE CleanText(term)
        freq == Get(term_freq, t, 0)
    IN  IF term = None THEN 4
        ELSE IF t = <<>> THEN 4
        ELSE Max(1, Min(10, 11 - CeilThreeLog10(freq + 1)))

\* importance = max(1, min(100, fame * uniq))
Importance(fame, uniq) == Max(1, Min(100, fame * uniq))

(***************************************************************************)
(* Sorting: sorted(..., reverse=True) and list.sort(reverse=True) are      *)
(* stable, elements with equal keys keep their original order.             *)
(***************************************************************************)
\* tuple comparison a[:n] > b[:n], from component i on
RECURSIVE KeyGreaterFrom(_, _, _, _)
KeyGreaterFrom(a, b, i, n) ==
    IF i > n THEN FALSE
    ELSE IF a[i] # b[i] THEN a[i] > b[i]
    ELSE KeyGreaterFrom(a, b, i + 1, n)

\* x put into the descending list acc behind every element whose key (the
\* first n components) is >= its own
InsertDesc(acc, x, n) ==
    LET m == Cardinality({i \in 1..Len(acc) : ~KeyGreaterFrom(x, acc[i], 1, n)})
    IN  SubSeq(acc, 1, m) \o <<x>> \o SubSeq(acc, m + 1, Len(acc))

RECURSIVE SortDescFrom(_, _, _, _)
SortDescFrom(lst, i, acc, n) ==
    IF i > Len(lst) THEN acc
    ELSE SortDescFrom(lst, i + 1, InsertDesc(acc, lst[i], n), n)

\* mutant of SortDesc: the list is left as it is
SortDesc_Unsorted(lst, n) == lst

\* lst.sort(key=lambda x: x[:n], reverse=True) for a list of tuples
SortDesc(lst, n) == SortDescFrom(lst, 1, <<>>, n)

\* [s for s in lst if s not in excluded]
RECURSIVE Without(_, _)
Without(lst, excluded) ==
    IF lst = <<>> THEN <<>>
    ELSE (IF InList(lst[1], excluded) THEN <<>> ELSE <<lst[1]>>)
         \o Without(Tail(lst), excluded)

\* lst[:n]
Take(lst, n) == SubSeq(lst, 1, Min(Max(n, 0), Len(lst)))

(***************************************************************************)
(* Steps shared by the two selection policies.                             *)
(***************************************************************************)
\* the loop that builds `cleaned`: normalise, drop empties and repeats
RECURSIVE CleanedFrom(_, _, _)
CleanedFrom(candidates, i, cleaned) ==
    IF i > Len(candidates) THEN cleaned
    ELSE LET s2 == CleanText(candidates[i])
         IN  IF s2 = <<>> \/ InList(s2, cleaned)
             THEN CleanedFrom(candidates, i + 1, cleaned)
             ELSE CleanedFrom(candidates, i + 1, Append(cleaned, s2))

\* mutant of Cleaned: repeats are not dropped
RECURSIVE Cleaned_KeepRepeats(_)
Cleaned_KeepRepeats(candidates) ==
    IF candidates = <<>> THEN <<>>
    ELSE (IF CleanText(candidates[1]) = <<>> THEN <<>> ELSE <<CleanText(candidates[1])>>)
         \o Cleaned_KeepRepeats(Tail(candidates))

Cleaned(candidates) == CleanedFrom(candidates, 1, <<>>)

\* pins = [_clean_text(p) for p in pinned_substrings]; pins = [p for p in pins if p]
\* (pinned_substrings None and [] take the same branch of `if pinned_substrings:`,
\* both are the empty list here)
RECURSIVE CleanPins(_)
CleanPins(pinned_substrings) ==
    IF pinned_substrings = <<>> THEN <<>>
    ELSE LET p == CleanText(pinned_substrings[1])
         IN  (IF p # <<>> THEN <<p>> ELSE <<>>) \o CleanPins(Tail(pinned_substrings))

\* [(heur(s), len(s), s) for s in cleaned]
RECURSIVE HeurKeyed(_, _)
HeurKeyed(cleaned, kind) ==
    IF cleaned = <<>> THEN <<>>
    ELSE <<<<Heur(kind, cleaned[1]), Len(cleaned[1]), cleaned[1]>>>>
         \o HeurKeyed(Tail(cleaned), kind)

\* the scoring terms of a list of (heur, len, s)
RECURSIVE TermsOf(_)
TermsOf(ranked) ==
    IF ranked = <<>> THEN {}
    ELSE LET term == ExtractScoringTerm(ranked[1][3])
         IN  (IF term # None /\ term # <<>> THEN {CleanText(term)} ELSE {})
             \cup TermsOf(Tail(ranked))

\* mutant of SearchTerms: ranked_for_search is not cut
SearchTerms_Uncut(cleaned, kind) ==
    TermsOf(SortDesc(HeurKeyed(cleaned, kind), 2))

\* the search_terms set: scoring terms of the first
\* _MAX_SEARCH_QUERIES_PER_NUMBER candidates of
\* sorted(cleaned, key=lambda s: (heur(s), len(s)), reverse=True)
SearchTerms(cleaned, kind) ==
    LET ranked_for_search == SortDesc(HeurKeyed(cleaned, kind), 2)
    IN  TermsOf(Take(ranked_for_search, MAX_SEARCH_QUERIES_PER_NUMBER))

\* scored.append((importance, fame, uniq, len(s), s)), with the cache the
\* call of _estimate_fame_score left and the query it sent
ScoredAppend(acc, s, f, uniq) ==
    [scored  |-> Append(acc.scored, <<Importance(f.score, uniq), f.score, uniq, Len(s), s>>),
     cache   |-> f.cache,
     queries |-> acc.queries \o f.queries]

\* the body of the loop that builds `scored`, for the candidate s and its
\* scoring term
ScoredStep(acc, s, term, term_freq, offline, search_terms, net) ==
    ScoredAppend(acc, s,
                 EstimateFameScore(term, offline, acc.cache,
                                   term # None /\ CleanText(term) \in search_terms, net),
                 EstimateUniquenessScore(term, term_freq))

\* the loop that builds `scored`; the search-hit cache is threaded through
\* the calls of _estimate_fame_score.  The value is the list of
\* (importance, fame, uniq, len(s), s) with the cache and the queries sent.
RECURSIVE ScoredFrom(_, _, _, _, _, _, _)
ScoredFrom(cleaned, i, acc, term_freq, offline, search_terms, net) ==
    IF i > Len(cleaned) THEN acc
    ELSE ScoredFrom(cleaned, i + 1,
                    ScoredStep(acc, cleaned[i], ExtractScoringTerm(cleaned[i]),
                               term_freq, offline, search_terms, net),
                    term_freq, offline, search_terms, net)

\* scored.sort(key=lambda x: (x[0], x[1], x[2], x[3]), reverse=True)
ScoredSort(r) ==
    [scored |-> SortDesc(r.scored, 4), cache |-> r.cache, queries |-> r.queries]

\* scored, sorted by (importance, fame, uniq, length) descending
Scored(cleaned, term_freq, searchhits_cache, offline, kind, net) ==
    ScoredSort(ScoredFrom(cleaned, 1,
                          [scored |-> <<>>, cache |-> searchhits_cache, queries |-> <<>>],
                          term_freq, offline, SearchTerms(cleaned, kind), net))

\* preferred = [s for importance, _, _, _, s in scored if importance >= threshold]
RECURSIVE Preferred(_, _)
Preferred(scored, threshold) ==
    IF scored = <<>> THEN <<>>
    ELSE (IF scored[1][1] >= threshold THEN <<scored[1][5]>> ELSE <<>>)
         \o Preferred(Tail(scored), threshold)

\* the first loop of the fill: out takes the entries of preferred
RECURSIVE FillPreferred(_, _, _)
FillPreferred(preferred, i, out) ==
    IF i > Len(preferred) THEN out
    ELSE IF InList(preferred[i], out) THEN FillPreferred(preferred, i + 1, out)
    ELSE FillPreferred(preferred, i + 1, Append(out, preferred[i]))

\* mutant of FillScored: the loop is left when len(out) > limit
RECURSIVE FillScored_StopsLate(_, _, _, _)
FillScored_StopsLate(scored, i, out, limit) ==
    IF i > Len(scored) THEN out
    ELSE IF InList(scored[i][5], out) THEN FillScored_StopsLate(scored, i + 1, out, limit)
    ELSE IF Len(out) + 1 > limit THEN Append(out, scored[i][5])
    ELSE FillScored_StopsLate(scored, i + 1, Append(out, scored[i][5]), limit)

\* the second loop of the fill: the next best entries of scored, until
\* len(out) >= limit is seen after an append
RECURSIVE FillScored(_, _, _, _)
FillScored(scored, i, out, limit) ==
    IF i > Len(scored) THEN out
    ELSE IF InList(scored[i][5], out) THEN FillScored(scored, i + 1, out, limit)
    ELSE IF Len(out) + 1 >= limit THEN Append(out, scored[i][5])
    ELSE FillScored(scored, i + 1, Append(out, scored[i][5]), limit)

FillOut(preferred, scored, limit) ==
    FillScored(scored, 1, FillPreferred(preferred, 1, <<>>), limit)

\* the result of a selector: the returned list with the parts it was built
\* from, the search-hit cache it leaves and the queries it sent
Outcome(result, cleaned, pinned_selected, scored, cache, queries) ==
    [result |-> result, cleaned |-> cleaned, pinned |-> pinned_selected,
     scored |-> scored, cache |-> cache, queries |-> queries]

(***************************************************************************)
(* _select_by_importance (threshold-inclusive policy)                      *)
(***************************************************************************)
\* mutant of PinnedSelected: a newly pinned candidate is put in front
RECURSIVE PinnedSelected_NewestFirst(_, _, _, _)
PinnedSelected_NewestFirst(pins, cleaned, i, pinned_selected) ==
    IF i > Len(pins) THEN pinned_selected
    ELSE LET hits == {j \in 1..Len(cleaned) : /\ ~InList(cleaned[j], pinned_selected)
                                              /\ Contains(pins[i], cleaned[j])}
         IN  IF hits = {} THEN PinnedSelected_NewestFirst(pins, cleaned, i + 1, pinned_selected)
             ELSE PinnedSelected_NewestFirst(pins, cleaned, i + 1,
                      <<cleaned[CHOOSE j \in hits : \A k \in hits : j <= k]>>
                      \o pinned_selected)

\* the pin loop: each pin takes the first candidate not yet used that
\* contains it, then `break`
RECURSIVE PinnedSelected(_, _, _, _)
PinnedSelected(pins, cleaned, i, pinned_selected) ==
    IF i > Len(pins) THEN pinned_selected
    ELSE LET hits == {j \in 1..Len(cleaned) : /\ ~InList(cleaned[j], pinned_selected)
                                              /\ Contains(pins[i], cleaned[j])}
         IN  IF hits = {} THEN PinnedSelected(pins, cleaned, i + 1, pinned_selected)
             ELSE PinnedSelected(pins, cleaned, i + 1,
                      Append(pinned_selected,
                             cleaned[CHOOSE j \in hits : \A k \in hits : j <= k]))

\* the list returned once `scored` is sorted: pins, then all of preferred
\* if it has `limit` entries or more, else preferred filled up from scored
CurrentResult(pinned_selected, preferred, scored, limit) ==
    IF Len(preferred) >= limit
    THEN pinned_selected \o preferred
    ELSE pinned_selected \o FillOut(preferred, scored, limit)

\* what both selectors return for no candidates: the empty list, the cache
\* untouched
Nothing(cleaned0, searchhits_cache) ==
    Outcome(<<>>, cleaned0, <<>>, <<>>, searchhits_cache, <<>>)

\* after the scoring loop and the sort (sc)
SelectScored(cleaned0, pinned_selected, sc, limit, threshold) ==
    Outcome(CurrentResult(pinned_selected, Preferred(sc.scored, threshold), sc.scored, limit),
            cleaned0, pinned_selected, sc.scored, sc.cache, sc.queries)

\* after the pin loop: the pinned candidates leave `cleaned`, the rest is scored
SelectPinned(cleaned0, pinned_selected, term_freq, searchhits_cache, offline, limit, threshold, kind, net) ==
    SelectScored(cleaned0, pinned_selected,
                 Scored(Without(cleaned0, pinned_selected), term_freq, searchhits_cache,
                        offline, kind, net),
                 limit, threshold)

\* after the loop that builds `cleaned` (cleaned0) and the pins are cleaned
SelectCleaned(cleaned0, pins, term_freq, searchhits_cache, offline, limit, threshold, kind, net) ==
    IF cleaned0 = <<>> THEN Nothing(cleaned0, searchhits_cache)
    ELSE SelectPinned(cleaned0, PinnedSelected(pins, cleaned0, 1, <<>>), term_freq,
                      searchhits_cache, offline, limit, threshold, kind, net)

SelectByImportance(candidates, term_freq, searchhits_cache, offline, limit, threshold, kind, pinned_substrings, net) ==
    IF candidates = <<>> THEN Nothing(<<>>, searchhits_cache)
    ELSE SelectCleaned(Cleaned(candidates), CleanPins(pinned_substrings), term_freq,
                       searchhits_cache, offline, limit, threshold, kind, net)

(***************************************************************************)
(* _select_by_importance_legacy (hard-cap policy)                          *)
(***************************************************************************)
\* the inner pin loop: every candidate not yet used that contains the pin is
\* taken, the loop is left only when len(pinned_selected) >= limit
RECURSIVE LegacyPinInner(_, _, _, _, _)
LegacyPinInner(pin, cleaned, j, pinned_selected, limit) ==
    IF j > Len(cleaned) THEN pinned_selected
    ELSE IF InList(cleaned[j], pinned_selected)
         THEN LegacyPinInner(pin, cleaned, j + 1, pinned_selected, limit)
    ELSE IF Contains(pin, cleaned[j])
         THEN IF Len(pinned_selected) + 1 >= limit
              THEN Append(pinned_selected, cleaned[j])
              ELSE LegacyPinInner(pin, cleaned, j + 1, Append(pinned_selected, cleaned[j]), limit)
    ELSE LegacyPinInner(pin, cleaned, j + 1, pinned_selected, limit)

\* the outer pin loop, left when len(pinned_selected) >= limit
RECURSIVE LegacyPinnedSelected(_, _, _, _, _)
LegacyPinnedSelected(pins, cleaned, i, pinned_selected, limit) ==
    IF i > Len(pins) THEN pinned_selected
    ELSE LET after == LegacyPinInner(pins[i], cleaned, 1, pinned_selected, limit)
         IN  IF Len(after) >= limit THEN after
             ELSE LegacyPinnedSelected(pins, cleaned, i + 1, after, limit)

\* mutant of LegacyResult: the result is not cut to `limit`
LegacyResult_Uncapped(pinned_selected, preferred, scored, limit) ==
    IF Len(preferred) >= limit
    THEN pinned_selected \o preferred
    ELSE pinned_selected \o FillOut(preferred, scored, limit)

\* mutant of LegacyResult: the cut keeps the last entries of preferred
\* instead of the first
LegacyResult_KeepsTail(pinned_selected, preferred, scored, limit) ==
    IF Len(preferred) >= limit
    THEN pinned_selected
         \o SubSeq(preferred, Len(preferred) - (limit - Len(pinned_selected)) + 1,
                   Len(preferred))
    ELSE pinned_selected
         \o Take(FillOut(preferred, scored, limit), limit - Len(pinned_selected))

\* the list returned once `scored` is sorted: pins, then the first
\* limit - len(pinned_selected) entries of preferred, or of preferred filled
\* up from scored
LegacyResult(pinned_selected, preferred, scored, limit) ==
    IF Len(preferred) >= limit
    THEN pinned_selected \o Take(preferred, limit - Len(pinned_selected))
    ELSE pinned_selected
         \o Take(FillOut(preferred, scored, limit), limit - Len(pinned_selected))

\* after the scoring loop and the sort (sc)
LegacyScored(cleaned0, pinned_selected, sc, limit, threshold) ==
    Outcome(LegacyResult(pinned_selected, Preferred(sc.scored, threshold), sc.scored, limit),
            cleaned0, pinned_selected, sc.scored, sc.cache, sc.queries)

\* after the pin loops: pins alone are returned if they reach `limit`
\* (nothing is scored, the cache is untouched), else the rest is scored
LegacyPinned(cleaned0, pinned_selected, term_freq, searchhits_cache, offline, limit, threshold, kind, net) ==
    IF Len(pinned_selected) >= limit
    THEN Outcome(Take(pinned_selected, limit), cleaned0, pinned_selected,
                 <<>>, searchhits_cache, <<>>)
    ELSE LegacyScored(cleaned0, pinned_selected,
                      Scored(Without(cleaned0, pinned_selected), term_freq, searchhits_cache,
                             offline, kind, net),
                      limit, threshold)

\* after the loop that builds `cleaned` (cleaned0) and the pins are cleaned
LegacyCleaned(cleaned0, pins, term_freq, searchhits_cache, offline, limit, threshold, kind, net) ==
    IF cleaned0 = <<>> THEN Nothing(cleaned0, searchhits_cache)
    ELSE LegacyPinned(cleaned0, LegacyPinnedSelected(pins, cleaned0, 1, <<>>, limit),
                      term_freq, searchhits_cache, offline, limit, threshold, kind, net)

SelectByImportanceLegacy(candidates, term_freq, searchhits_cache, offline, limit, threshold, kind, pinned_substrings, net) ==
    IF candidates = <<>> THEN Nothing(<<>>, searchhits_cache)
    ELSE LegacyCleaned(Cleaned(candidates), CleanPins(pinned_substrings), term_freq,
                       searchhits_cache, offline, limit, threshold, kind, net)

(***************************************************************************)
(* Documents on disk.  A file is absent, or holds text that json.loads     *)
(* rejects (`invalid`, or `partial` for what a write that did not finish   *)
(* leaves: write_text truncates the file and then writes the text), or     *)
(* holds a JSON value.  JSON values carry their type; a dict is a function *)
(* from its keys, a list a sequence, a str a sequence of characters.  No   *)
(* dict of the inputs has two keys that int() maps to the same number.     *)
(***************************************************************************)
JNull == [type |-> "null"]
JInt(n) == [type |-> "int", n |-> n]
JStr(s) == [type |-> "str", s |-> s]
JList(elems) == [type |-> "list", elems |-> elems]
JDict(fields) == [type |-> "dict", fields |-> fields]

AbsentFile == [state |-> "absent"]
InvalidFile == [state |-> "invalid"]
PartialFile == [state |-> "partial"]
JsonFile(value) == [state |-> "json", value |-> value]

\* raw = json.loads(path.read_text()) under `except Exception`, raw = {}
\* when it raises
ParsedOrEmpty(f) == IF f.state = "json" THEN f.value ELSE JDict(<<>>)

\* raw.get(name, {}): defined on a dict only (AttributeError otherwise)
HasGet(raw) == raw.type = "dict"
RawGet(raw, name) == IF name \in DOMAIN raw.fields THEN raw.fields[name] ELSE JDict(<<>>)

\* int(k) for a str k: surrounding whitespace and one sign are accepted,
\* the rest must be decimal digits; ok is FALSE where int raises ValueError
DigitChars == <<"0", "1", "2", "3", "4", "5", "6", "7", "8", "9">>
DigitValue(c) == (CHOOSE d \in 1..10 : DigitChars[d] = c) - 1

RECURSIVE DecimalValue(_)
DecimalValue(s) ==
    IF s = <<>> THEN 0
    ELSE 10 * DecimalValue(SubSeq(s, 1, Len(s) - 1)) + DigitValue(s[Len(s)])

Unsigned(t) == IF t # <<>> /\ t[1] \in {"+", "-"} THEN Tail(t) ELSE t
IntOfDigits(t, u) == [ok |-> TRUE, n |-> IF t[1] = "-" THEN 0 - DecimalValue(u) ELSE DecimalValue(u)]
IntOfStripped(t) ==
    IF Unsigned(t) # <<>> /\ \A i \in 1..Len(Unsigned(t)) : Unsigned(t)[i] \in Digit
    THEN IntOfDigits(t, Unsigned(t))
    ELSE [ok |-> FALSE, n |-> 0]
IntOf(k) == IntOfStripped(Strip(k))

\* str(n) for an int n
RECURSIVE StrOfNat(_)
StrOfNat(n) == IF n < 10 THEN <<DigitChars[n + 1]>> ELSE StrOfNat(n \div 10) \o <<DigitChars[(n % 10) + 1]>>
Str(n) == IF n < 0 THEN <<"-">> \o StrOfNat(0 - n) ELSE StrOfNat(n)

\* the keys of a dict that int() accepts, and the key of a number
IntKeys(fields) == {k \in DOMAIN fields : IntOf(k).ok}
KeyOfNumber(fields, n) == CHOOSE k \in IntKeys(fields) : IntOf(k).n = n

\* a variant that gives the lines in the opposite order
RECURSIVE StrLines_Reversed(_)
StrLines_Reversed(elems) ==
    IF elems = <<>> THEN <<>>
    ELSE IF elems[1].type = "str" /\ Strip(elems[1].s) # <<>>
    THEN StrLines_Reversed(Tail(elems)) \o <<elems[1].s>>
    ELSE StrLines_Reversed(Tail(elems))

\* lines = [s for s in v if isinstance(s, str) and s.strip()]
RECURSIVE StrLines(_)
StrLines(elems) ==
    IF elems = <<>> THEN <<>>
    ELSE IF elems[1].type = "str" /\ Strip(elems[1].s) # <<>>
    THEN <<elems[1].s>> \o StrLines(Tail(elems))
    ELSE StrLines(Tail(elems))

\* the loop over items.items() of the property and other caches: the
\* numbers whose value is a list with at least one usable line
LinesOf(v) == IF v.type = "list" THEN StrLines(v.elems) ELSE <<>>
SelectionKeys(fields) == {k \in IntKeys(fields) : LinesOf(fields[k]) # <<>>}
SelectionsOfFields(fields) ==
    [n \in {IntOf(k).n : k \in SelectionKeys(fields)} |-> LinesOf(fields[KeyOfNumber(fields, n)])]
SelectionsOf(items) == IF items.type = "dict" THEN SelectionsOfFields(items.fields) ELSE <<>>

\* the loop over items.items() of the intro cache: the numbers whose value
\* is a str (an empty one included)
IntroKeys(fields) == {k \in IntKeys(fields) : fields[k].type = "str"}
IntrosOfFields(fields) ==
    [n \in {IntOf(k).n : k \in IntroKeys(fields)} |-> fields[KeyOfNumber(fields, n)].s]
IntrosOf(items) == IF items.type = "dict" THEN IntrosOfFields(items.fields) ELSE <<>>

\* the names of the two fields of a selection cache, by kind
CurrentField(k) == IF k = "property" THEN "properties" ELSE "others"
LegacyField(k) == IF k = "property" THEN "properties_legacy" ELSE "others_legacy"

\* what a load leaves: whether it raised (AttributeError at raw.get), and
\* the maps it built (legacy is empty where there is one map only)
Raised == [raised |-> TRUE, value |-> <<>>, legacy |-> <<>>]
Loaded(value, legacy) == [raised |-> FALSE, value |-> value, legacy |-> legacy]

\* the first lines of load_or_build_wikipedia_property_sentence_sets_for_numbers
\* and of load_or_build_wikipedia_other_item_sets_for_numbers
LoadSelectionsRaw(raw, k) ==
    IF ~HasGet(raw) THEN Raised
    ELSE Loaded(SelectionsOf(RawGet(raw, CurrentField(k))), SelectionsOf(RawGet(raw, LegacyField(k))))
LoadSelections(f, k) ==
    IF f.state = "absent" THEN Loaded(<<>>, <<>>) ELSE LoadSelectionsRaw(ParsedOrEmpty(f), k)

\* the first lines of load_or_build_wikipedia_intros_for_numbers
LoadIntrosRaw(raw) == IF ~HasGet(raw) THEN Raised ELSE Loaded(IntrosOf(RawGet(raw, "intros")), <<>>)
LoadIntros(f) == IF f.state = "absent" THEN Loaded(<<>>, <<>>) ELSE LoadIntrosRaw(ParsedOrEmpty(f))

\* _load_searchhits_cache: json.loads under `except Exception: return {}`
HitKeys(fields) == {k \in DOMAIN fields : fields[k].type = "int" /\ fields[k].n >= 0}
HitsOfFields(fields) == [k \in HitKeys(fields) |-> fields[k].n]
HitsOf(items) == IF items.type = "dict" THEN HitsOfFields(items.fields) ELSE <<>>
LoadSearchhitsRaw(raw) == IF ~HasGet(raw) THEN Raised ELSE Loaded(HitsOf(RawGet(raw, "searchhits")), <<>>)
LoadSearchhitsCache(f) == IF f.state = "json" THEN LoadSearchhitsRaw(f.value) ELSE Loaded(<<>>, <<>>)

\* _load_pins_config: per number and kind, the cleaned pins without
\* repetition, kinds and numbers that have none left out
RECURSIVE CleanedPins(_, _)
CleanedPins(elems, seen) ==
    IF elems = <<>> THEN <<>>
    ELSE IF elems[1].type # "str" THEN CleanedPins(Tail(elems), seen)
    ELSE IF CleanText(elems[1].s) = <<>> \/ CleanText(elems[1].s) \in seen
    THEN CleanedPins(Tail(elems), seen)
    ELSE <<CleanText(elems[1].s)>> \o CleanedPins(Tail(elems), seen \cup {CleanText(elems[1].s)})

KindItems(v, k) == IF k \in DOMAIN v.fields THEN v.fields[k] ELSE JList(<<>>)
PinsOfKind(v, k) == IF KindItems(v, k).type = "list" THEN CleanedPins(KindItems(v, k).elems, {}) ELSE <<>>
PinsPer(v) == [k \in {j \in {"property", "other"} : PinsOfKind(v, j) # <<>>} |-> PinsOfKind(v, k)]
PinsOfValue(v) == IF v.type = "dict" THEN PinsPer(v) ELSE <<>>
PinKeys(fields) == {k \in IntKeys(fields) : PinsOfValue(fields[k]) # <<>>}
PinsOfFields(fields) ==
    [n \in {IntOf(k).n : k \in PinKeys(fields)} |-> PinsOfValue(fields[KeyOfNumber(fields, n)])]
PinsOf(items) == IF items.type = "dict" THEN PinsOfFields(items.fields) ELSE <<>>
LoadPinsRaw(raw) == IF ~HasGet(raw) THEN Raised ELSE Loaded(PinsOf(RawGet(raw, "pins")), <<>>)
LoadPinsConfig(f) == IF f.state = "json" THEN LoadPinsRaw(f.value) ELSE Loaded(<<>>, <<>>)

\* _load_threshold_overrides_config: per number and kind, the override
\* clamped to 1..100
IsOverride(v, k) == k \in DOMAIN v.fields /\ v.fields[k].type = "int"
OverridesPer(v) == [k \in {j \in {"property", "other"} : IsOverride(v, j)} |-> Max(1, Min(100, v.fields[k].n))]
OverridesOfValue(v) == IF v.type = "dict" THEN OverridesPer(v) ELSE <<>>
OverrideKeys(fields) == {k \in IntKeys(fields) : OverridesOfValue(fields[k]) # <<>>}
OverridesOfFields(fields) ==
    [n \in {IntOf(k).n : k \in OverrideKeys(fields)} |-> OverridesOfValue(fields[KeyOfNumber(fields, n)])]
OverridesOf(items) == IF items.type = "dict" THEN OverridesOfFields(items.fields) ELSE <<>>
LoadThresholdsRaw(raw) == IF ~HasGet(raw) THEN Raised ELSE Loaded(OverridesOf(RawGet(raw, "thresholds")), <<>>)
LoadThresholdOverridesConfig(f) == IF f.state = "json" THEN LoadThresholdsRaw(f.value) ELSE Loaded(<<>>, <<>>)

(***************************************************************************)
(* Inputs of the selectors.                                                *)
(***************************************************************************)
MaxCands == 3       \* longest candidate list
MaxPins == 2        \* longest pin list
MaxLimit == 3       \* largest limit

\* raw candidate strings: two that differ only in whitespace, two that share
\* the quoted term AB, one with a katakana term
CandA      == <<"A", "maru">>
CandASpace == <<" ", "A", "maru", "\n">>
CandQuoted == <<"lq2", "A", "B", "rq2", "maru">>
CandKana   == <<"ka_a", "ka_ni", "ka_me", "ka_long", "B">>
CandPi     == <<"B", "lq2", "A", "B", "rq2", "pi">>
CandidatePool == {CandA, CandASpace, CandQuoted, CandKana, CandPi}

\* raw pinned substrings; the first one needs normalising
PinPool == {<<" ", "A">>, <<"B">>}

\* the scoring terms of the pool
TermAB   == <<"A", "B">>
TermKana == <<"ka_a", "ka_ni", "ka_me", "ka_long">>
Terms == {TermAB, TermKana}

\* lists of at most n elements of S
ListsUpTo(S, n) == UNION {[1..k -> S] : k \in 0..n}

\* importance thresholds: the default and a per-number override
Thresholds == {IMPORTANCE_THRESHOLD, 16}

\* term-frequency tables as _build_term_frequency_from_items leaves them
\* (only terms that were counted are keys)
TermFreqTables == {<<>>, (TermAB :> 9)}

\* outcomes of one search request
NetOutcomes == {[raises |-> TRUE, totalhits |-> 0],
                [raises |-> FALSE, totalhits |-> 1],
                [raises |-> FALSE, totalhits |-> 60000]}

\* the queries a selector call can send: none when offline, else the scoring
\* terms of its candidates
RECURSIVE ScoringTermsOf(_)
ScoringTermsOf(lst) ==
    IF lst = <<>> THEN {}
    ELSE LET term == ExtractScoringTerm(lst[1])
         IN  (IF term # None THEN {CleanText(term)} ELSE {}) \cup ScoringTermsOf(Tail(lst))

(***************************************************************************)
(* State: the arguments of one pass of the selection loop, the search-hit  *)
(* cache shared by the two selector calls, and what each call returned;    *)
(* for the scoring of a single term, the term, the allow_fetch flag and    *)
(* the three scores; for the calls of the fame estimator, the calls made   *)
(* (estimated) and the search requests they sent (sent).                   *)
(***************************************************************************)
VARIABLES candidates, pinned_substrings, limit, threshold, kind, offline,
          term_freq, searchhits_cache, selected_current, selected_legacy, pc,
          term, allow_fetch, fame, uniq, importance, sent, estimated,
          sections, lookup, loader, loaded,
          file, hits_file, numbers, refresh, cached_all, cached_legacy, to_fetch,
          fetched_candidates, returned, file_before, fetched, failed, wrote, runs,
          unanswered,
          client, max_retries, base_sleep_sec, attempts, slept, http,
          plain, max_candidates, line_candidates, extracted,
          script, step, range_index, net_probe, invocations, generated, proc, elapsed, hb, result, link_check

selVars == <<candidates, pinned_substrings, limit, threshold, kind,
             selected_current, selected_legacy>>
scoreVars == <<term, allow_fetch, fame, uniq, importance>>
fameVars == <<sent, estimated>>

vars == <<candidates, pinned_substrings, limit, threshold, kind, offline,
          term_freq, searchhits_cache, selected_current, selected_legacy, pc,
          term, allow_fetch, fame, uniq, importance, sent, estimated,
          sections, lookup, loader, loaded,
          file, hits_file, numbers, refresh, cached_all, cached_legacy, to_fetch,
          fetched_candidates, returned, file_before, fetched, failed, wrote, runs,
          unanswered,
          client, max_retries, base_sleep_sec, attempts, slept, http,
          plain, max_candidates, line_candidates, extracted,
          script, step, range_index, net_probe, invocations, generated, proc, elapsed, hb, result, link_check>>

\* what an extractor call leaves when none was made
NoLookup == [raised |-> FALSE, target |-> 0, fetched |-> FALSE, result |-> <<>>]

\* how the last batch call ended (returned, raised, or killed from outside)
\* and the two maps it returned; NotReturned while it runs or before the first
Ended(how, cur, legacy) ==
    [returned |-> how = "returned", raised |-> how = "raised", killed |-> how = "killed",
     cur |-> cur, legacy |-> legacy]
NotReturned == Ended("none", <<>>, <<>>)

\* the state of the parts of the program that a behaviour does not run
sectionVars == <<sections, lookup>>
loadVars == <<loader, loaded>>
batchVars == <<file, hits_file, numbers, refresh, cached_all, cached_legacy, to_fetch,
               fetched_candidates, returned, file_before, fetched, failed, wrote, runs,
               unanswered>>
httpVars == <<client, max_retries, base_sleep_sec, attempts, slept, http>>
\* what the Other-mode extractor returned; NotExtracted before it has
ExtractedList(lst) == [done |-> TRUE, list |-> lst]
NotExtracted == [done |-> FALSE, list |-> <<>>]
extractVars == <<plain, max_candidates, line_candidates, extracted>>
\* a child process: what it runs, whether it still runs, its exit code, and
\* whether terminate() and kill() were called on it
Child(what, state, rc, terminated, killed) ==
    [what |-> what, state |-> state, rc |-> rc, terminated |-> terminated, killed |-> killed]
NoProc == Child("none", "none", 0, FALSE, FALSE)
\* how main() of a supervising script ended: by return (with the exit code
\* of the process) or by an exception; NotRun before and Running while it runs
RunResult(how, code, error) == [how |-> how, code |-> code, error |-> error]
NotRun == RunResult("none", 0, "none")
superVars == <<script, step, range_index, net_probe, invocations, generated, proc, elapsed, hb, result, link_check>>
otherVars == <<httpVars, extractVars, superVars>>
restVars == <<sectionVars, loadVars, batchVars, otherVars>>
SectionIdle == sections = <<>> /\ lookup = NoLookup
LoadIdle == loader = "none" /\ loaded = Loaded(<<>>, <<>>)
BatchIdle ==
    /\ file = AbsentFile /\ hits_file = AbsentFile /\ file_before = AbsentFile
    /\ numbers = <<>> /\ refresh = FALSE
    /\ cached_all = <<>> /\ cached_legacy = <<>> /\ fetched_candidates = <<>>
    /\ to_fetch = {} /\ fetched = {} /\ failed = {} /\ unanswered = {}
    /\ returned = NotReturned /\ wrote = FALSE /\ runs = 0
HttpIdle ==
    /\ client = "none" /\ max_retries = 0 /\ base_sleep_sec = 0
    /\ attempts = <<>> /\ slept = <<>> /\ http = "idle"
ExtractIdle ==
    /\ plain = <<>> /\ max_candidates = 0 /\ line_candidates = <<>> /\ extracted = NotExtracted
SuperIdle ==
    /\ script = "none" /\ step = "idle" /\ range_index = 0 /\ net_probe = FALSE
    /\ invocations = <<>> /\ generated = <<>> /\ proc = NoProc /\ elapsed = 0
    /\ hb = "idle" /\ result = NotRun /\ link_check = "none"
OtherIdle == HttpIdle /\ ExtractIdle /\ SuperIdle
\* the selectors and the estimators are not called
SelectionIdle ==
    /\ candidates = <<>> /\ pinned_substrings = <<>>
    /\ limit = 1 /\ threshold = IMPORTANCE_THRESHOLD /\ kind = "property"
    /\ offline = FALSE /\ term_freq = <<>> /\ searchhits_cache = <<>>
    /\ selected_current = Outcome(<<>>, <<>>, <<>>, <<>>, <<>>, <<>>)
    /\ selected_legacy = Outcome(<<>>, <<>>, <<>>, <<>>, <<>>, <<>>)
    /\ term = None /\ allow_fetch = FALSE
    /\ fame = 0 /\ uniq = 0 /\ importance = 0
    /\ sent = <<>> /\ estimated = <<>>
RestIdle == SectionIdle /\ LoadIdle /\ BatchIdle /\ OtherIdle

\* the behaviours of the search service during one call: an outcome for
\* every query the call can send (none when offline, and none for a term
\* that has a cache entry); for the lists longer than MaxCands the service
\* answers every query of a call alike
Sendable == IF offline THEN {} ELSE ScoringTermsOf(candidates) \ DOMAIN searchhits_cache
Nets ==
    IF Len(candidates) <= MaxCands
    THEN [Sendable -> NetOutcomes]
    ELSE {[q \in Sendable |-> outcome] : outcome \in NetOutcomes}

\* the search-hit cache before the first run: no cache file, an empty dict
InitialCache == <<>>

NoOutcome == Outcome(<<>>, <<>>, <<>>, <<>>, <<>>, <<>>)

Init ==
    /\ candidates \in ListsUpTo(CandidatePool, MaxCands)
    /\ pinned_substrings \in ListsUpTo(PinPool, MaxPins)
    /\ limit \in 1..MaxLimit
    /\ threshold \in Thresholds
    /\ kind \in {"property", "other"}
    /\ offline \in BOOLEAN
    /\ term_freq \in TermFreqTables
    /\ searchhits_cache = InitialCache
    /\ selected_current = NoOutcome
    /\ selected_legacy = NoOutcome
    /\ pc = "select_current"
    /\ term = None /\ allow_fetch = FALSE
    /\ fame = 0 /\ uniq = 0 /\ importance = 0
    /\ sent = <<>> /\ estimated = <<>>
    /\ RestIdle

\* selected_current = _select_by_importance(...)
SelectCurrent ==
    /\ pc = "select_current"
    /\ \E net \in Nets :
         LET r == SelectByImportance(candidates, term_freq, searchhits_cache, offline,
                                     limit, threshold, kind, pinned_substrings, net)
         IN  /\ selected_current' = r
             /\ searchhits_cache' = r.cache
    /\ pc' = "select_legacy"
    /\ UNCHANGED <<candidates, pinned_substrings, limit, threshold, kind, offline,
                   term_freq, selected_legacy, scoreVars, fameVars, restVars>>

\* selected_legacy = _select_by_importance_legacy(...), on the cache the
\* first call left
SelectLegacy ==
    /\ pc = "select_legacy"
    /\ \E net \in Nets :
         LET r == SelectByImportanceLegacy(candidates, term_freq, searchhits_cache, offline,
                                           limit, threshold, kind, pinned_substrings, net)
         IN  /\ selected_legacy' = r
             /\ searchhits_cache' = r.cache
    /\ pc' = "done"
    /\ UNCHANGED <<candidates, pinned_substrings, limit, threshold, kind, offline,
                   term_freq, selected_current, scoreVars, fameVars, restVars>>

Next == SelectCurrent \/ SelectLegacy

Spec == Init /\ [][Next]_vars

(***************************************************************************)
(* The scoring of one term: the body of the loop that builds `scored`,     *)
(* over every term shape, flag combination, hit count and frequency.       *)
(***************************************************************************)
MaxFreq == 1000     \* largest term frequency

\* terms handed to the estimators: none, one that is blank, a plain one, a
\* katakana run, one of three katakana only, and two standards codes
TermIso == <<"I", "S", "O", "1", "2", "3">>
TermJis == <<"J", "I", "S", " ", "Z", " ", "1", "2", "3">>
TermKanaShort == <<"ka_a", "ka_ni", "ka_me">>
ScoreTerms == {None, <<" ">>, TermAB, TermKana, TermKanaShort, TermIso, TermJis}

\* total-hit counts: 0, and the two counts on either side of every step of
\* the fame score, up to saturation
HitCounts == {0, 1, 5, 6, 23, 24, 86, 87, 315, 316, 1135, 1136, 4083, 4084,
              14676, 14677, 52748, 52749, 1000000}

\* outcomes of the search request: an exception, a response without a
\* usable totalhits, a hit count
ScoreNetOutcomes ==
    {[raises |-> TRUE, totalhits |-> 0], [raises |-> FALSE, totalhits |-> -1]}
    \cup {[raises |-> FALSE, totalhits |-> h] : h \in HitCounts}

\* the search requests of a call of the estimator, each with whether it
\* failed (_fetch_wikipedia_search_totalhits raised)
Requests(queries, net) ==
    [i \in 1..Len(queries) |-> [query |-> queries[i], failed |-> net[queries[i]].raises]]

\* the key of a term in the two tables
KeyOf(t) == IF t = None THEN TermAB ELSE CleanText(t)

InitScore ==
    /\ term \in ScoreTerms
    /\ offline \in BOOLEAN
    /\ allow_fetch \in BOOLEAN
    /\ term_freq \in {<<>>} \cup {(KeyOf(term) :> f) : f \in 1..MaxFreq}
    /\ searchhits_cache \in {<<>>, (KeyOf(term) :> 0), (KeyOf(term) :> 316)}
    /\ fame = 0 /\ uniq = 0 /\ importance = 0
    /\ sent = <<>> /\ estimated = <<>>
    /\ RestIdle
    /\ pc = "score"
    /\ candidates = <<>> /\ pinned_substrings = <<>>
    /\ limit = 1 /\ threshold = IMPORTANCE_THRESHOLD /\ kind = "property"
    /\ selected_current = NoOutcome /\ selected_legacy = NoOutcome

\* fame = _estimate_fame_score(...); uniq = _estimate_uniqueness_score(...);
\* importance = max(1, min(100, fame * uniq))
Score ==
    /\ pc = "score"
    /\ \E net \in [(IF term = None \/ offline \/ ~allow_fetch THEN {} ELSE {CleanText(term)})
                   -> ScoreNetOutcomes] :
         LET f == EstimateFameScore(term, offline, searchhits_cache, allow_fetch, net)
             u == EstimateUniquenessScore(term, term_freq)
         IN  /\ fame' = f.score
             /\ searchhits_cache' = f.cache
             /\ uniq' = u
             /\ importance' = Importance(f.score, u)
             /\ sent' = sent \o Requests(f.queries, net)
    /\ estimated' = Append(estimated, [term |-> term, allow_fetch |-> allow_fetch])
    /\ pc' = "scored"
    /\ UNCHANGED <<term, offline, allow_fetch, term_freq, selVars, restVars>>

NextScore == Score

SpecScore == InitScore /\ [][NextScore]_vars

(***************************************************************************)
(* The two selector calls on more candidates than                          *)
(* _MAX_SEARCH_QUERIES_PER_NUMBER.                                         *)
(***************************************************************************)
\* a candidate with the quoted term A<d> followed by n full stops
RECURSIVE Stops(_)
Stops(n) == IF n = 0 THEN <<>> ELSE <<"maru">> \o Stops(n - 1)
Quoted(d, n) == <<"lq2", "A", d, "rq2">> \o Stops(n)

\* eight candidates: six with terms A1..A6, longer to shorter; one with term
\* A7 and the sign pi, which the property heuristic ranks first and the
\* other heuristic seventh; the shortest with term A1 again
ManyCandidates ==
    << Quoted("1", 7), Quoted("2", 6), Quoted("3", 5), Quoted("4", 4),
       Quoted("5", 3), Quoted("6", 2), <<"lq2", "A", "7", "rq2", "pi">>, Quoted("1", 0) >>

RECURSIVE Reverse(_)
Reverse(lst) == IF lst = <<>> THEN <<>> ELSE Append(Reverse(Tail(lst)), lst[1])

\* the candidate lists: all eight in both orders, the first seven, the
\* first six
ManyCandidateLists ==
    {ManyCandidates, Reverse(ManyCandidates), Take(ManyCandidates, 7),
     Reverse(Take(ManyCandidates, 7)), Take(ManyCandidates, 6)}

\* no pin, or one that takes a candidate with term A1
ManyPins == {<<>>, <<<<"1">>>>}

InitQueries ==
    /\ candidates \in ManyCandidateLists
    /\ pinned_substrings \in ManyPins
    /\ limit = 3
    /\ threshold = IMPORTANCE_THRESHOLD
    /\ kind \in {"property", "other"}
    /\ offline \in BOOLEAN
    /\ term_freq = <<>>
    /\ searchhits_cache \in {<<>>, (<<"A", "2">> :> 60000)}
    /\ selected_current = NoOutcome
    /\ selected_legacy = NoOutcome
    /\ pc = "select_current"
    /\ term = None /\ allow_fetch = FALSE
    /\ fame = 0 /\ uniq = 0 /\ importance = 0
    /\ sent = <<>> /\ estimated = <<>>
    /\ RestIdle

SpecQueries == InitQueries /\ [][Next]_vars

(***************************************************************************)
(* A run of calls of the fame estimator that share one search-hit cache,   *)
(* as the scoring loops of all the selector calls of a batch do.           *)
(***************************************************************************)
MaxCalls == 3       \* most calls of the estimator in a run

\* terms of the calls: none, a plain one, the same one with whitespace
\* around it, a katakana run
TermABSpaced == <<" ", "A", "B", " ">>
FameTerms == {None, TermAB, TermABSpaced, TermKana}

\* the cache at the start of the run: empty, or as a former run saved it
FameCaches == {<<>>, (TermKana :> 5)}

InitFame ==
    /\ offline \in BOOLEAN
    /\ searchhits_cache \in FameCaches
    /\ sent = <<>> /\ estimated = <<>>
    /\ RestIdle
    /\ pc = "fame"
    /\ term = None /\ allow_fetch = FALSE
    /\ fame = 0 /\ uniq = 0 /\ importance = 0
    /\ term_freq = <<>>
    /\ candidates = <<>> /\ pinned_substrings = <<>>
    /\ limit = 1 /\ threshold = IMPORTANCE_THRESHOLD /\ kind = "property"
    /\ selected_current = NoOutcome /\ selected_legacy = NoOutcome

\* fame = _estimate_fame_score(term, offline=offline,
\* searchhits_cache=searchhits_cache, allow_fetch=...), the search service
\* answering as it does at the time of the call
Estimate ==
    /\ pc = "fame"
    /\ Len(estimated) < MaxCalls
    /\ \E t \in FameTerms, af \in BOOLEAN, outcome \in NetOutcomes :
         LET net == [q \in (IF t = None THEN {} ELSE {CleanText(t)}) |-> outcome]
             f == EstimateFameScore(t, offline, searchhits_cache, af, net)
         IN  /\ term' = t
             /\ allow_fetch' = af
             /\ fame' = f.score
             /\ searchhits_cache' = f.cache
             /\ sent' = sent \o Requests(f.queries, net)
             /\ estimated' = Append(estimated, [term |-> t, allow_fetch |-> af])
    /\ UNCHANGED <<offline, term_freq, uniq, importance, pc, selVars, restVars>>

NextFame == Estimate

SpecFame == InitFame /\ [][NextFame]_vars

(***************************************************************************)
(* Section lookup: extract_property_candidate_sentences_from_title and     *)
(* extract_other_candidate_items_from_title.  A page is the list of its    *)
(* section titles, in the order fetch_sections returns them; the index of  *)
(* a section is its position in the list.                                  *)
(***************************************************************************)
MaxSections == 3    \* most sections of a page

\* section_name_hint, by its default in each of the two extractors
HintOf(k) == IF k = "property" THEN <<"sei", "shitsu">> ELSE <<"so", "no", "ta">>

\* str.startswith
StartsWith(s, p) == Len(p) <= Len(s) /\ SubSeq(s, 1, Len(p)) = p

\* section titles of a page: the hint itself, the hint followed by more,
\* the hint inside a longer title, a title that has nothing of the hint
SectionTitles(k) ==
    {HintOf(k), HintOf(k) \o <<"no", "ichiran">>, <<"su", "no">> \o HintOf(k), <<"gai", "you">>}

\* the first position from i on whose title is the hint or starts with it
\* (0 when there is none): the first loop over the sections
RECURSIVE FirstByPrefix(_, _, _)
FirstByPrefix(secs, hint, i) ==
    IF i > Len(secs) THEN 0
    ELSE IF secs[i] = hint \/ StartsWith(secs[i], hint) THEN i
    ELSE FirstByPrefix(secs, hint, i + 1)

\* the first position from i on whose title contains the hint: the second loop
RECURSIVE FirstContaining(_, _, _)
FirstContaining(secs, hint, i) ==
    IF i > Len(secs) THEN 0
    ELSE IF Contains(hint, secs[i]) THEN i
    ELSE FirstContaining(secs, hint, i + 1)

\* target, as the two loops leave it (0 for None)
TargetSection(secs, hint) ==
    IF FirstByPrefix(secs, hint, 1) # 0 THEN FirstByPrefix(secs, hint, 1)
    ELSE FirstContaining(secs, hint, 1)

\* answers of the two requests of a lookup: fetch_sections raises (the
\* request failed after its retries) or returns the sections of the page;
\* fetch_section_wikitext raises, returns "" or returns text, of which the
\* plain-text extractor makes the candidates `found`
SectionAnswers == {"raises", "sections"}
WikitextAnswers == {"raises", "empty", "text"}
FoundCandidates == {<<>>, <<CandA>>}

\* what a call of an extractor does: whether it raised, the section whose
\* wikitext it asked for (0 for none), whether it got text, and the list it
\* returned
ExtractFromTitle(secs, hint, sectionAnswer, wikitextAnswer, found) ==
    IF sectionAnswer = "raises"
    THEN [raised |-> TRUE, target |-> 0, fetched |-> FALSE, result |-> <<>>]
    ELSE IF secs = <<>> \/ TargetSection(secs, hint) = 0
    THEN [raised |-> FALSE, target |-> 0, fetched |-> FALSE, result |-> <<>>]
    ELSE IF wikitextAnswer = "raises"
    THEN [raised |-> TRUE, target |-> TargetSection(secs, hint), fetched |-> FALSE, result |-> <<>>]
    ELSE IF wikitextAnswer = "empty"
    THEN [raised |-> FALSE, target |-> TargetSection(secs, hint), fetched |-> FALSE, result |-> <<>>]
    ELSE [raised |-> FALSE, target |-> TargetSection(secs, hint), fetched |-> TRUE, result |-> found]

InitSection ==
    /\ kind \in {"property", "other"}
    /\ sections \in ListsUpTo(SectionTitles(kind), MaxSections)
    /\ lookup = NoLookup
    /\ LoadIdle /\ BatchIdle /\ OtherIdle
    /\ pc = "lookup"
    /\ offline = FALSE
    /\ searchhits_cache = <<>>
    /\ sent = <<>> /\ estimated = <<>>
    /\ term = None /\ allow_fetch = FALSE
    /\ fame = 0 /\ uniq = 0 /\ importance = 0
    /\ term_freq = <<>>
    /\ candidates = <<>> /\ pinned_substrings = <<>>
    /\ limit = 1 /\ threshold = IMPORTANCE_THRESHOLD
    /\ selected_current = NoOutcome /\ selected_legacy = NoOutcome

\* candidates = extract_..._from_title(title), the two requests answered
\* as the service answers them at the time of the call
LookUp ==
    /\ pc = "lookup"
    /\ \E sa \in SectionAnswers, wa \in WikitextAnswers, found \in FoundCandidates :
         lookup' = ExtractFromTitle(sections, HintOf(kind), sa, wa, found)
    /\ pc' = "looked"
    /\ UNCHANGED <<sections, kind, offline, searchhits_cache, term_freq, scoreVars, fameVars,
                   candidates, pinned_substrings, limit, threshold,
                   selected_current, selected_legacy, loadVars, batchVars, otherVars>>

NextSection == LookUp

SpecSection == InitSection /\ [][NextSection]_vars

(***************************************************************************)
(* The loads of the four kinds of document, over the states of the file:   *)
(* absent, not JSON, JSON that is not an object, an object whose field is  *)
(* not an object, and objects with usable and unusable entries.            *)
(***************************************************************************)
Loaders == {"property", "other", "intros", "searchhits", "pins", "thresholds"}

\* the field a load reads its entries from
FieldOf(l) ==
    CASE l = "property" -> "properties"
      [] l = "other" -> "others"
      [] l = "intros" -> "intros"
      [] l = "searchhits" -> "searchhits"
      [] l = "pins" -> "pins"
      [] OTHER -> "thresholds"

\* JSON values that are not objects
NonObjects == {JList(<<>>), JNull, JStr(<<"x">>), JInt(3)}

\* keys of the entries: a number, and a key that int() rejects
EntryKeys(l) == IF l = "searchhits" THEN {TermAB, TermKana} ELSE {<<"1">>, <<"x">>}

\* values of the entries, usable and not
EntryValues(l) ==
    CASE l \in {"property", "other"} ->
           {JList(<<JStr(CandA)>>), JList(<<JInt(1), JStr(<<" ">>), JStr(CandA)>>),
            JList(<<JStr(<<" ">>)>>), JStr(CandA)}
      [] l = "intros" -> {JStr(CandA), JStr(<<>>), JInt(1), JNull}
      [] l = "searchhits" -> {JInt(5), JInt(0), JInt(-1), JStr(<<"5">>)}
      [] l = "pins" ->
           {JDict("property" :> JList(<<JStr(<<" ", "A">>), JStr(<<"A">>), JInt(1)>>)),
            JDict("other" :> JList(<<JStr(<<" ">>)>>)),
            JDict("property" :> JStr(<<"A">>)), JList(<<>>)}
      [] OTHER ->
           {JDict("property" :> JInt(20)), JDict("other" :> JInt(200)),
            JDict("property" :> JStr(<<"2", "0">>)), JInt(20)}

\* the dicts of entries: any of the keys, each with any of the values
EntryDicts(l) == UNION {[K -> EntryValues(l)] : K \in SUBSET EntryKeys(l)}

\* the states of the file a load can find
LoadFiles(l) ==
    {AbsentFile, InvalidFile, PartialFile}
    \cup {JsonFile(v) : v \in NonObjects}
    \cup {JsonFile(JDict(<<>>))}
    \cup {JsonFile(JDict(FieldOf(l) :> v)) : v \in NonObjects}
    \cup {JsonFile(JDict(FieldOf(l) :> JDict(d))) : d \in EntryDicts(l)}

\* the load of loader l on file f
LoadBy(l, f) ==
    CASE l \in {"property", "other"} -> LoadSelections(f, l)
      [] l = "intros" -> LoadIntros(f)
      [] l = "searchhits" -> LoadSearchhitsCache(f)
      [] l = "pins" -> LoadPinsConfig(f)
      [] OTHER -> LoadThresholdOverridesConfig(f)

InitLoad ==
    /\ loader \in Loaders
    /\ file \in LoadFiles(loader)
    /\ loaded = Loaded(<<>>, <<>>)
    /\ pc = "load"
    /\ hits_file = AbsentFile /\ file_before = AbsentFile
    /\ numbers = <<>> /\ refresh = FALSE
    /\ cached_all = <<>> /\ cached_legacy = <<>> /\ fetched_candidates = <<>>
    /\ to_fetch = {} /\ fetched = {} /\ failed = {} /\ unanswered = {}
    /\ returned = NotReturned /\ wrote = FALSE /\ runs = 0
    /\ SectionIdle /\ OtherIdle
    /\ kind = "property" /\ offline = FALSE
    /\ searchhits_cache = <<>>
    /\ sent = <<>> /\ estimated = <<>>
    /\ term = None /\ allow_fetch = FALSE
    /\ fame = 0 /\ uniq = 0 /\ importance = 0
    /\ term_freq = <<>>
    /\ candidates = <<>> /\ pinned_substrings = <<>>
    /\ limit = 1 /\ threshold = IMPORTANCE_THRESHOLD
    /\ selected_current = NoOutcome /\ selected_legacy = NoOutcome

\* the load runs on the file as it is
Load ==
    /\ pc = "load"
    /\ loaded' = LoadBy(loader, file)
    /\ pc' = "loaded"
    /\ UNCHANGED <<loader, batchVars, sectionVars, otherVars, selVars, scoreVars, fameVars,
                   offline, term_freq, searchhits_cache>>

NextLoad == Load

SpecLoad == InitLoad /\ [][NextLoad]_vars

(***************************************************************************)
(* The batch functions load_or_build_wikipedia_property_sentence_sets_for_ *)
(* numbers, load_or_build_wikipedia_other_item_sets_for_numbers and        *)
(* load_or_build_wikipedia_intros_for_numbers (kind "intros"), called one  *)
(* after the other on one cache file.  Between two calls the state is the  *)
(* two files; the time of a save is the number of the call that makes it.  *)
(* The pin and threshold files are absent, so no number has pins or an     *)
(* override.                                                               *)
(***************************************************************************)
MaxRuns == 2        \* most calls in a row

\* numbers a call can be asked for, and the lists of them
Numbers == {1, 2}
Batches == {<<>>, <<1>>, <<2>>, <<1, 2>>}

\* set(numbers)
SetOf(lst) == {lst[i] : i \in 1..Len(lst)}

\* the least number of a set: the next of `for n in sorted(to_fetch)`
SetMin(S) == CHOOSE x \in S : \A y \in S : x <= y

\* the candidates an extractor call can return
FetchedLists == {<<>>, <<CandA>>, <<CandQuoted, CandA>>}

\* the extracts of an intro request: "" (or no page) and a text
IntroExtracts == {<<>>, CandA}

\* a variant that looks at the current map only
Missing_CurrentOnly(requested, k, all, legacy) == {n \in requested : n \notin DOMAIN all}

\* a variant that takes a number for missing only when both maps lack it
Missing_InBoth(requested, k, all, legacy) ==
    IF k = "intros" THEN {n \in requested : n \notin DOMAIN all}
    ELSE {n \in requested : n \notin DOMAIN all /\ n \notin DOMAIN legacy}

\* to_fetch, from offline, refresh and the two maps (one map for intros)
Missing(requested, k, all, legacy) ==
    IF k = "intros" THEN {n \in requested : n \notin DOMAIN all}
    ELSE {n \in requested : n \notin DOMAIN all \/ n \notin DOMAIN legacy}
ToFetch(requested, off, refr, k, all, legacy) ==
    IF off THEN {} ELSE IF refr THEN requested ELSE Missing(requested, k, all, legacy)

\* a variant that counts down
CountTermOf_Decrement(t, freq) == IF t = <<>> THEN freq ELSE Put(freq, t, Get(freq, t, 0) - 1)

\* term_freq[t] = term_freq.get(t, 0) + 1 for the term of a line, if it has one
CountTermOf(t, freq) == IF t = <<>> THEN freq ELSE Put(freq, t, Get(freq, t, 0) + 1)
CountTerm(term_, freq) == IF term_ = None \/ term_ = <<>> THEN freq ELSE CountTermOf(CleanText(term_), freq)

RECURSIVE CountLines(_, _)
CountLines(lines, freq) ==
    IF lines = <<>> THEN freq
    ELSE CountLines(Tail(lines), CountTerm(ExtractScoringTerm(lines[1]), freq))

\* _build_term_frequency_from_items(items), the numbers of ns left to count
RECURSIVE CountItems(_, _, _)
CountItems(items, ns, freq) ==
    IF ns = {} THEN freq
    ELSE CountItems(items, ns \ {SetMin(ns)}, CountLines(items[SetMin(ns)], freq))
BuildTermFrequencyFromItems(items) == CountItems(items, DOMAIN items, <<>>)

\* the loop over fetched_candidates.items(): the two selectors on the
\* candidates of each number, sharing term_freq and the search-hit cache;
\* a non-empty selection replaces the entry of the number
RECURSIVE SelectLoop(_, _, _, _, _, _, _, _, _)
\* a variant that keeps the entry of the one number only
StoreIfAny_Alone(m, n, selected) == IF selected # <<>> THEN (n :> selected) ELSE m
StoreIfAny(m, n, selected) == IF selected # <<>> THEN Put(m, n, selected) ELSE m
StoreBoth(n, ns, fc, tf, cur, leg, all, legacy, k, off, net) ==
    SelectLoop(ns \ {n}, fc, tf, leg.cache, StoreIfAny(all, n, cur.result),
               StoreIfAny(legacy, n, leg.result), k, off, net)
SelectLegacyOf(n, ns, fc, tf, cur, all, legacy, k, off, net) ==
    StoreBoth(n, ns, fc, tf, cur,
              SelectByImportanceLegacy(fc[n], tf, cur.cache, off, 3, IMPORTANCE_THRESHOLD, k, <<>>, net),
              all, legacy, k, off, net)
SelectCurrentOf(n, ns, fc, tf, cache, all, legacy, k, off, net) ==
    SelectLegacyOf(n, ns, fc, tf,
                   SelectByImportance(fc[n], tf, cache, off, 3, IMPORTANCE_THRESHOLD, k, <<>>, net),
                   all, legacy, k, off, net)
SelectLoop(ns, fc, tf, cache, all, legacy, k, off, net) ==
    IF ns = {} THEN [cache |-> cache, all |-> all, legacy |-> legacy]
    ELSE SelectCurrentOf(SetMin(ns), ns, fc, tf, cache, all, legacy, k, off, net)

\* the search requests the loop can send: the scoring terms of the fetched
\* candidates that have no cache entry
RECURSIVE TermsOfFetched(_, _)
TermsOfFetched(fc, ns) ==
    IF ns = {} THEN {}
    ELSE ScoringTermsOf(fc[SetMin(ns)]) \cup TermsOfFetched(fc, ns \ {SetMin(ns)})

\* json.dumps of the documents that the saves write
RECURSIVE JStrs(_)
JStrs(lines) == IF lines = <<>> THEN <<>> ELSE <<JStr(lines[1])>> \o JStrs(Tail(lines))
NumberOfKey(m, key) == CHOOSE n \in DOMAIN m : Str(n) = key
ListEntries(m) == [key \in {Str(n) : n \in DOMAIN m} |-> JList(JStrs(m[NumberOfKey(m, key)]))]
StrEntries(m) == [key \in {Str(n) : n \in DOMAIN m} |-> JStr(m[NumberOfKey(m, key)])]
Meta(now) == JDict("generated_at" :> JInt(now))
SelectionDocument(k, all, legacy, now) ==
    JDict(("meta" :> Meta(now)) @@ (CurrentField(k) :> JDict(ListEntries(all)))
          @@ (LegacyField(k) :> JDict(ListEntries(legacy))))
IntroDocument(all, now) == JDict(("meta" :> Meta(now)) @@ ("intros" :> JDict(StrEntries(all))))
CacheDocument(k, all, legacy, now) ==
    IF k = "intros" THEN IntroDocument(all, now) ELSE SelectionDocument(k, all, legacy, now)
SearchhitsDocument(cache, now) ==
    JDict(("meta" :> Meta(now)) @@ ("searchhits" :> JDict([t \in DOMAIN cache |-> JInt(cache[t])])))

\* the load at the start of a call
LoadCache(f, k) == IF k = "intros" THEN LoadIntros(f) ELSE LoadSelections(f, k)

\* {n: cached[n] for n in numbers if n in cached}
Requested(m, lst) == [n \in SetOf(lst) \cap DOMAIN m |-> m[n]]

\* the cache file before the first call: absent, not JSON, JSON that is
\* not an object, or a document that a former call saved (number 1 in both
\* maps, number 2 in the current map only or in neither)
FormerLists == {<<CandA>>, <<CandQuoted, CandA>>}
FormerMaps(k) ==
    IF k = "intros" THEN {[all |-> (1 :> CandA), legacy |-> <<>>]}
    ELSE {[all |-> (1 :> c), legacy |-> (1 :> c)] : c \in FormerLists}
         \cup {[all |-> (1 :> <<CandA>>) @@ (2 :> <<CandA>>), legacy |-> (1 :> <<CandA>>)]}
BatchFiles(k) ==
    {AbsentFile, InvalidFile, JsonFile(JList(<<>>))}
    \cup {JsonFile(CacheDocument(k, m.all, m.legacy, 0)) : m \in FormerMaps(k)}

\* the search-hit cache file before the first call
HitsFiles == {AbsentFile, JsonFile(SearchhitsDocument((TermAB :> 60000), 0))}

InitBatch ==
    /\ kind \in {"property", "other", "intros"}
    /\ file \in BatchFiles(kind)
    /\ hits_file \in HitsFiles
    /\ file_before = AbsentFile
    /\ numbers = <<>> /\ refresh = FALSE /\ offline = FALSE
    /\ cached_all = <<>> /\ cached_legacy = <<>> /\ fetched_candidates = <<>>
    /\ to_fetch = {} /\ fetched = {} /\ failed = {} /\ unanswered = {}
    /\ returned = NotReturned /\ wrote = FALSE /\ runs = 0
    /\ pc = "idle"
    /\ SectionIdle /\ LoadIdle /\ OtherIdle
    /\ searchhits_cache = <<>> /\ term_freq = <<>>
    /\ sent = <<>> /\ estimated = <<>>
    /\ term = None /\ allow_fetch = FALSE
    /\ fame = 0 /\ uniq = 0 /\ importance = 0
    /\ candidates = <<>> /\ pinned_substrings = <<>>
    /\ limit = 1 /\ threshold = IMPORTANCE_THRESHOLD
    /\ selected_current = NoOutcome /\ selected_legacy = NoOutcome

\* variables that no step of a batch call changes
batchFrame == <<kind, candidates, pinned_substrings, limit, threshold,
                selected_current, selected_legacy, scoreVars, fameVars, sectionVars, loadVars,
                otherVars>>

\* the call ends with an exception
Raise ==
    /\ returned' = Ended("raised", <<>>, <<>>)
    /\ runs' = runs + 1
    /\ pc' = "idle"

\* a variant that forgets the entries of the numbers to fetch
Proceed_Clearing(L, H, tf) ==
    /\ cached_all' = [n \in DOMAIN L.value \ tf |-> L.value[n]]
    /\ cached_legacy' = [n \in DOMAIN L.legacy \ tf |-> L.legacy[n]]
    /\ to_fetch' = tf
    /\ IF tf = {}
       THEN pc' = "return" /\ returned' = NotReturned /\ runs' = runs
            /\ UNCHANGED <<searchhits_cache, term_freq>>
       ELSE IF kind = "intros"
       THEN pc' = "fetch_intros" /\ returned' = NotReturned /\ runs' = runs
            /\ UNCHANGED <<searchhits_cache, term_freq>>
       ELSE /\ pc' = "fetch" /\ returned' = NotReturned /\ runs' = runs
            /\ searchhits_cache' = H.value
            /\ term_freq' = BuildTermFrequencyFromItems(L.value)

\* after the loads: nothing to fetch, or the search-hit cache is loaded
\* and the term frequencies are counted from the current map (intros have
\* neither)
Proceed(L, H, tf) ==
    /\ cached_all' = L.value /\ cached_legacy' = L.legacy
    /\ to_fetch' = tf
    /\ IF tf = {}
       THEN pc' = "return" /\ returned' = NotReturned /\ runs' = runs
            /\ UNCHANGED <<searchhits_cache, term_freq>>
       ELSE IF kind = "intros"
       THEN pc' = "fetch_intros" /\ returned' = NotReturned /\ runs' = runs
            /\ UNCHANGED <<searchhits_cache, term_freq>>
       ELSE IF H.raised
       THEN Raise /\ UNCHANGED <<searchhits_cache, term_freq>>
       ELSE /\ pc' = "fetch" /\ returned' = NotReturned /\ runs' = runs
            /\ searchhits_cache' = H.value
            /\ term_freq' = BuildTermFrequencyFromItems(L.value)

\* a call of the batch function of `kind`: the load of the cache file and
\* the choice of the numbers to fetch
Begin(nums, refr, off, L) ==
    /\ numbers' = nums /\ refresh' = refr /\ offline' = off
    /\ file_before' = file
    /\ unanswered' = IF returned.returned THEN fetched \ DOMAIN fetched_candidates ELSE {}
    /\ fetched' = {} /\ failed' = {} /\ wrote' = FALSE /\ fetched_candidates' = <<>>
    /\ IF L.raised
       THEN /\ Raise
            /\ cached_all' = <<>> /\ cached_legacy' = <<>> /\ to_fetch' = {}
            /\ UNCHANGED <<searchhits_cache, term_freq>>
       ELSE Proceed(L, LoadSearchhitsCache(hits_file),
                    ToFetch(SetOf(nums), off, refr, kind, L.value, L.legacy))

Call ==
    /\ pc = "idle"
    /\ runs < MaxRuns
    /\ \E nums \in Batches, refr \in BOOLEAN, off \in BOOLEAN :
         Begin(nums, refr, off, LoadCache(file, kind))
    /\ UNCHANGED <<file, hits_file, batchFrame>>

\* what a call of an extractor gives: an exception, or a list of candidates
FetchOutcomes ==
    {[raises |-> TRUE, candidates |-> <<>>]}
    \cup {[raises |-> FALSE, candidates |-> c] : c \in FetchedLists}

\* a variant that goes on to the selection after the first fetch
FetchedOne_Early(n, o) ==
    /\ fetched' = fetched \cup {n}
    /\ failed' = IF o.raises THEN failed \cup {n} ELSE failed
    /\ fetched_candidates' =
         IF o.candidates # <<>> THEN Put(fetched_candidates, n, o.candidates)
         ELSE fetched_candidates
    /\ term_freq' = CountLines(o.candidates, term_freq)
    /\ pc' = "select"

\* one pass of `for n in sorted(to_fetch)`: the exception of the extractor
\* is caught and leaves no candidates
FetchedOne(n, o) ==
    /\ fetched' = fetched \cup {n}
    /\ failed' = IF o.raises THEN failed \cup {n} ELSE failed
    /\ fetched_candidates' =
         IF o.candidates # <<>> THEN Put(fetched_candidates, n, o.candidates)
         ELSE fetched_candidates
    /\ term_freq' = CountLines(o.candidates, term_freq)
    /\ pc' = IF fetched \cup {n} = to_fetch THEN "select" ELSE "fetch"

FetchOne ==
    /\ pc = "fetch"
    /\ \E o \in FetchOutcomes : FetchedOne(SetMin(to_fetch \ fetched), o)
    /\ UNCHANGED <<file, hits_file, file_before, unanswered, numbers, refresh, offline, cached_all,
                   cached_legacy, to_fetch, returned, wrote, runs, searchhits_cache,
                   batchFrame>>

\* the loop over fetched_candidates.items(), the search service answering
\* each term as it does when the term is first asked for
Selected(r) ==
    /\ cached_all' = r.all
    /\ cached_legacy' = r.legacy
    /\ searchhits_cache' = r.cache

SelectAll ==
    /\ pc = "select"
    /\ \E net \in [TermsOfFetched(fetched_candidates, DOMAIN fetched_candidates)
                   \ DOMAIN searchhits_cache -> NetOutcomes] :
         Selected(SelectLoop(DOMAIN fetched_candidates, fetched_candidates, term_freq,
                             searchhits_cache, cached_all, cached_legacy, kind, offline, net))
    /\ pc' = IF offline THEN "save" ELSE "save_hits"
    /\ UNCHANGED <<file, hits_file, file_before, unanswered, numbers, refresh, offline, to_fetch,
                   fetched_candidates, returned, fetched, failed, wrote, runs, term_freq,
                   batchFrame>>

\* titles = ...; intros_by_title = fetch_intros_by_titles(titles): the one
\* request of the batch raises, which ends the call, or gives an extract
\* for each title; a non-empty extract replaces the entry of the number
RECURSIVE WithExtracts(_, _, _)
WithExtracts(all, ex, ns) ==
    IF ns = {} THEN all
    ELSE WithExtracts(StoreIfAny(all, SetMin(ns), ex[SetMin(ns)]), ex, ns \ {SetMin(ns)})

FetchIntros ==
    /\ pc = "fetch_intros"
    /\ fetched' = to_fetch
    /\ \/ /\ failed' = to_fetch
          /\ Raise
          /\ UNCHANGED cached_all
       \/ /\ \E ex \in [to_fetch -> IntroExtracts] :
               cached_all' = WithExtracts(cached_all, ex, to_fetch)
          /\ pc' = "save"
          /\ UNCHANGED <<failed, returned, runs>>
    /\ UNCHANGED <<file, hits_file, file_before, unanswered, numbers, refresh, offline, cached_legacy,
                   to_fetch, fetched_candidates, wrote, searchhits_cache, term_freq,
                   batchFrame>>

\* _save_searchhits_cache: write_text opens the file for writing, which
\* empties it, and then writes the document
SaveHitsOpen ==
    /\ pc = "save_hits"
    /\ hits_file' = PartialFile
    /\ pc' = "save_hits_write"
    /\ UNCHANGED <<file, file_before, unanswered, numbers, refresh, offline, cached_all, cached_legacy,
                   to_fetch, fetched_candidates, returned, fetched, failed, wrote, runs,
                   searchhits_cache, term_freq, batchFrame>>

SaveHitsWrite ==
    /\ pc = "save_hits_write"
    /\ hits_file' = JsonFile(SearchhitsDocument(searchhits_cache, runs + 1))
    /\ pc' = "save"
    /\ UNCHANGED <<file, file_before, unanswered, numbers, refresh, offline, cached_all, cached_legacy,
                   to_fetch, fetched_candidates, returned, fetched, failed, wrote, runs,
                   searchhits_cache, term_freq, batchFrame>>

\* cache_path.write_text(json.dumps(...)), in the same two steps
SaveOpen ==
    /\ pc = "save"
    /\ file' = PartialFile
    /\ pc' = "save_write"
    /\ UNCHANGED <<hits_file, file_before, unanswered, numbers, refresh, offline, cached_all,
                   cached_legacy, to_fetch, fetched_candidates, returned, fetched, failed,
                   wrote, runs, searchhits_cache, term_freq, batchFrame>>

SaveWrite ==
    /\ pc = "save_write"
    /\ file' = JsonFile(CacheDocument(kind, cached_all, cached_legacy, runs + 1))
    /\ wrote' = TRUE
    /\ pc' = "return"
    /\ UNCHANGED <<hits_file, file_before, unanswered, numbers, refresh, offline, cached_all,
                   cached_legacy, to_fetch, fetched_candidates, returned, fetched, failed,
                   runs, searchhits_cache, term_freq, batchFrame>>

\* return cur, legacy (the one map for intros)
Return ==
    /\ pc = "return"
    /\ returned' = Ended("returned", Requested(cached_all, numbers),
                         IF kind = "intros" THEN <<>> ELSE Requested(cached_legacy, numbers))
    /\ runs' = runs + 1
    /\ pc' = "idle"
    /\ UNCHANGED <<file, hits_file, file_before, unanswered, numbers, refresh, offline, cached_all,
                   cached_legacy, to_fetch, fetched_candidates, fetched, failed, wrote,
                   searchhits_cache, term_freq, batchFrame>>

\* run_with_heartbeat ends the process that runs the call (terminate, then
\* kill) when its time is up, wherever the call is
Kill ==
    /\ pc # "idle"
    /\ returned' = Ended("killed", <<>>, <<>>)
    /\ runs' = runs + 1
    /\ pc' = "idle"
    /\ UNCHANGED <<file, hits_file, file_before, unanswered, numbers, refresh, offline, cached_all,
                   cached_legacy, to_fetch, fetched_candidates, fetched, failed, wrote,
                   searchhits_cache, term_freq, batchFrame>>

NextBatch ==
    \/ Call \/ FetchOne \/ SelectAll \/ FetchIntros
    \/ SaveHitsOpen \/ SaveHitsWrite \/ SaveOpen \/ SaveWrite \/ Return \/ Kill

SpecBatch == InitBatch /\ [][NextBatch]_vars

(***************************************************************************)
(* _http_get_json of wikipedia_ja.py and of wikidata_cc0.py: the retry     *)
(* loop.  An attempt succeeds (the response is read and parsed) or raises; *)
(* what it raises is an HTTPError with a status code, or another exception *)
(* (code 0: no connection, a timeout, a body that is not JSON).  Times are *)
(* in seconds.                                                             *)
(***************************************************************************)
MaxRetries == 3     \* largest max_retries (the default of both functions)

\* base_sleep_sec: none, the default, and one whose backoff exceeds 30 s
BaseSleeps == {0, 1, 40}

\* values of the Retry-After header of a 429 response: the text the server
\* sent and the delay in seconds that it stands for; a number of seconds,
\* one with spaces around it, an empty value, an HTTP-date two minutes
\* ahead, and a superscript two (a digit to str.isdigit, not to float)
NoHeader == [present |-> FALSE, text |-> <<>>, delay |-> 0]
Header(text, delay) == [present |-> TRUE, text |-> text, delay |-> delay]
RetryAfterHeaders ==
    {NoHeader, Header(<<"1", "2", "0">>, 120), Header(<<" ", "7", " ">>, 7), Header(<<>>, 0),
     Header(<<"date">>, 120), Header(<<"sup2">>, 2)}

\* what an attempt can do
Success == [ok |-> TRUE, code |-> 0, retry_after |-> NoHeader]
Failure(code, h) == [ok |-> FALSE, code |-> code, retry_after |-> h]
AttemptOutcomes ==
    {Success, Failure(0, NoHeader), Failure(500, NoHeader), Failure(503, NoHeader)}
    \cup {Failure(429, h) : h \in RetryAfterHeaders}

\* 2**attempt
RECURSIVE Pow2(_)
Pow2(k) == IF k = 0 THEN 1 ELSE 2 * Pow2(k - 1)

\* str.isdigit(): not empty, and every character a digit (the superscript
\* digits are); float(s) for such a string raises ValueError unless every
\* character is a decimal digit
IsDigitStr(s) == s # <<>> /\ \A i \in 1..Len(s) : s[i] \in Digit \cup {"sup2"}
IsDecimalStr(s) == \A i \in 1..Len(s) : s[i] \in Digit

\* a sleep of so many seconds, or the exception that escapes the handler
Sleep(seconds) == [raises |-> FALSE, seconds |-> seconds]
SleepRaises == [raises |-> TRUE, seconds |-> 0]

\* the branch for code 429: retry_after = e.headers.get("Retry-After")
RateLimitSleep(backoff, h) ==
    IF h.present /\ h.text # <<>> /\ IsDigitStr(Strip(h.text))
    THEN IF IsDecimalStr(Strip(h.text)) THEN Sleep(Max(backoff, DecimalValue(Strip(h.text))))
         ELSE SleepRaises
    ELSE Sleep(Max(backoff, 30))

\* sleep_sec of wikipedia_ja._http_get_json after failed attempt k
WikipediaSleep(backoff, o) ==
    IF o.code = 429 THEN RateLimitSleep(backoff, o.retry_after)
    ELSE IF o.code \in {502, 503, 504} THEN Sleep(Max(backoff, 5))
    ELSE Sleep(backoff)

\* the sleep of either function after failed attempt k (0-based)
SleepSec(c, base, k, o) ==
    IF c = "wikipedia" THEN WikipediaSleep(base * Pow2(k), o) ELSE Sleep(base * Pow2(k))

InitHttp ==
    /\ client \in {"wikipedia", "wikidata"}
    /\ max_retries \in 0..MaxRetries
    /\ base_sleep_sec \in BaseSleeps
    /\ attempts = <<>> /\ slept = <<>> /\ http = "running"
    /\ pc = "http"
    /\ SelectionIdle /\ SectionIdle /\ LoadIdle /\ BatchIdle /\ ExtractIdle /\ SuperIdle

\* after a failed attempt that is not the last: the sleep, unless
\* computing it raises
Backoff(s) ==
    IF s.raises THEN http' = "value_error" /\ UNCHANGED slept
    ELSE http' = "running" /\ slept' = Append(slept, s.seconds)

\* a variant that gives up one failed attempt later
Attempted_OneMore(o) ==
    /\ attempts' = Append(attempts, o)
    /\ IF o.ok THEN http' = "returned" /\ UNCHANGED slept
       ELSE IF Len(attempts) > max_retries THEN http' = "runtime_error" /\ UNCHANGED slept
       ELSE Backoff(SleepSec(client, base_sleep_sec, Len(attempts), o))

\* one pass of `for attempt in range(max_retries + 1)`, attempt being the
\* number of attempts made so far
Attempted(o) ==
    /\ attempts' = Append(attempts, o)
    /\ IF o.ok THEN http' = "returned" /\ UNCHANGED slept
       ELSE IF Len(attempts) >= max_retries THEN http' = "runtime_error" /\ UNCHANGED slept
       ELSE Backoff(SleepSec(client, base_sleep_sec, Len(attempts), o))

Attempt ==
    /\ http = "running"
    /\ Len(attempts) < max_retries + 1
    /\ \E o \in AttemptOutcomes : Attempted(o)
    /\ UNCHANGED <<client, max_retries, base_sleep_sec, pc, selVars, scoreVars, fameVars,
                   offline, term_freq, searchhits_cache, sectionVars, loadVars, batchVars,
                   extractVars, superVars>>

NextHttp == Attempt

SpecHttp == InitHttp /\ [][NextHttp]_vars

\* every attempt comes to an end: urlopen has a timeout
SpecHttpFair == SpecHttp /\ WF_vars(Attempt)

(***************************************************************************)
(* The Other-mode candidate extractor                                      *)
(* (extract_other_candidate_items_from_plain_text): the text is            *)
(* normalised line by line, every line is split on the sentence            *)
(* terminator, and the candidates are filtered, ranked and deduplicated.   *)
(* The texts here hold no carriage return, so the two replace() calls on   *)
(* "\r\n" and "\r" leave them as they are.                                 *)
(***************************************************************************)
MaxLines == 2
MAX_CANDIDATES == 16
MIN_OTHER_LEN == 14
MAX_OTHER_LEN == 220

\* n copies of the letter x
Filler(n) == [i \in 1..n |-> "x"]

\* re.sub(r"[\t ]+", " ", text)
RECURSIVE CollapseBlanks(_)
CollapseBlanks(s) ==
    IF s = <<>> THEN <<>>
    ELSE IF s[1] \in {"\t", " "}
         THEN <<" ">> \o CollapseBlanks(SubSeq(s, 1 + RunLen(s, 1, {"\t", " "}), Len(s)))
         ELSE <<s[1]>> \o CollapseBlanks(Tail(s))

\* re.sub(r"\n{3,}", "\n\n", text)
RECURSIVE CollapseNewlines(_)
CollapseNewlines(s) ==
    IF s = <<>> THEN <<>>
    ELSE IF RunLen(s, 1, {"\n"}) >= 3
         THEN <<"\n", "\n">> \o CollapseNewlines(SubSeq(s, 1 + RunLen(s, 1, {"\n"}), Len(s)))
         ELSE <<s[1]>> \o CollapseNewlines(Tail(s))

\* s.split(sep) and re.split(r"[sep]", s) for a separator of one character:
\* the pieces between the separators, the empty ones included
RECURSIVE SplitFrom(_, _, _, _)
SplitFrom(s, i, piece, sep) ==
    IF i > Len(s) THEN <<piece>>
    ELSE IF s[i] = sep THEN <<piece>> \o SplitFrom(s, i + 1, <<>>, sep)
    ELSE SplitFrom(s, i + 1, Append(piece, s[i]), sep)

Split(s, sep) == SplitFrom(s, 1, <<>>, sep)

\* [p.strip() for p in pieces if p.strip()]
RECURSIVE StrippedNonEmpty(_)
StrippedNonEmpty(pieces) ==
    IF pieces = <<>> THEN <<>>
    ELSE (IF Strip(pieces[1]) # <<>> THEN <<Strip(pieces[1])>> ELSE <<>>)
         \o StrippedNonEmpty(Tail(pieces))

\* sep.join(pieces)
RECURSIVE Join(_, _)
Join(pieces, sep) ==
    IF pieces = <<>> THEN <<>>
    ELSE IF Len(pieces) = 1 THEN pieces[1]
    ELSE pieces[1] \o <<sep>> \o Join(Tail(pieces), sep)

\* _clean_text_preserve_newlines
CleanTextPreserveNewlines(text) ==
    Join(StrippedNonEmpty(Split(CollapseNewlines(CollapseBlanks(ReplaceNbsp(text))), "\n")), "\n")

\* [ln for ln in text.split("\n") if ln]: the lines the first loop works on
RECURSIVE NonEmptyOnes(_)
NonEmptyOnes(pieces) ==
    IF pieces = <<>> THEN <<>>
    ELSE (IF pieces[1] # <<>> THEN <<pieces[1]>> ELSE <<>>) \o NonEmptyOnes(Tail(pieces))

TextLines(text) == NonEmptyOnes(Split(text, "\n"))

\* parts = [p.strip() for p in re.split(r"[。]", line) if p.strip()]
Parts(line) == StrippedNonEmpty(Split(line, "maru"))

\* [p + "。" for p in parts]
WithTerminator(parts) == [i \in 1..Len(parts) |-> Append(parts[i], "maru")]

\* the body of the first loop for one line: `if parts: ... else: ...`
CandidatesOfLine(line) ==
    IF Parts(line) # <<>> THEN WithTerminator(Parts(line)) ELSE <<line>>

\* the list `candidates` after the first loop
RECURSIVE LineCandidates(_)
LineCandidates(lines) ==
    IF lines = <<>> THEN <<>>
    ELSE CandidatesOfLine(lines[1]) \o LineCandidates(Tail(lines))

\* the literal lit stands in s at position i
LitAt(s, i, lit) ==
    /\ i + Len(lit) - 1 <= Len(s)
    /\ \A k \in 1..Len(lit) : s[i + k - 1] = lit[k]

\* the position behind the whitespace run that starts at i (\s*)
AfterWs(s, i) == i + RunLen(s, i, Whitespace)

NATURAL_NUMBER == <<"kj_shi", "kj_zen", "kj_suu">>
AMONG_INTEGERS == <<"kj_sei", "kj_suu", "hi_ni", "hi_o", "hi_i", "hi_te">>
IS_A == <<"hi_de", "hi_a", "hi_ru">>

\* one of the alternatives `lead\s*整数において`
IntegerClauseAt(s, i, lead) ==
    /\ LitAt(s, i, lead)
    /\ LitAt(s, AfterWs(s, i + Len(lead)), AMONG_INTEGERS)

\* the boilerplate pattern matched at position i
BoilerplateAt(s, i) ==
    /\ s[i] = "hi_ha"
    /\ LitAt(s, AfterWs(s, i + 1), NATURAL_NUMBER)
    /\ \/ IntegerClauseAt(s, AfterWs(s, i + 1) + 3, <<"touten", "hi_ma", "hi_ta">>)
       \/ IntegerClauseAt(s, AfterWs(s, i + 1) + 3, <<"hi_ma", "hi_ta">>)
       \/ IntegerClauseAt(s, AfterWs(s, i + 1) + 3, <<"hi_ma", "hi_ta", "hi_ha">>)
       \/ LitAt(s, AfterWs(s, i + 1) + 3, IS_A)

\* re.search of the boilerplate pattern
IsBoilerplate(s) == \E i \in 1..Len(s) : BoilerplateAt(s, i)

\* the second loop keeps s
KeptOther(s) ==
    /\ s # <<>>
    /\ ~IsBoilerplate(s)
    /\ Len(s) >= MIN_OTHER_LEN
    /\ Len(s) <= MAX_OTHER_LEN

\* the list `cleaned` of the second loop
RECURSIVE CleanedOther(_)
CleanedOther(cands) ==
    IF cands = <<>> THEN <<>>
    ELSE (IF KeptOther(CleanText(cands[1])) THEN <<CleanText(cands[1])>> ELSE <<>>)
         \o CleanedOther(Tail(cands))

\* [(score(s), -len(s), s) for s in cleaned]: the sort key with its string
OtherKeyed(cleaned) ==
    [i \in 1..Len(cleaned) |->
        <<HeuristicOtherScore(cleaned[i]), 0 - Len(cleaned[i]), cleaned[i]>>]

\* the last loop: repeats are skipped, the loop is left at max_candidates
RECURSIVE TakeUnique(_, _, _, _)
TakeUnique(ranked, i, acc, cap) ==
    IF i > Len(ranked) THEN acc
    ELSE IF InList(ranked[i][3], acc) THEN TakeUnique(ranked, i + 1, acc, cap)
    ELSE IF Len(acc) + 1 >= cap THEN Append(acc, ranked[i][3])
    ELSE TakeUnique(ranked, i + 1, Append(acc, ranked[i][3]), cap)

\* what the function returns once `candidates` is built
RankedOther(cands, cap) == TakeUnique(SortDesc(OtherKeyed(CleanedOther(cands)), 2), 1, <<>>, cap)

\* lines of the section text: one without terminator, two sentences, a
\* sentence with an unterminated rest, terminators only, a short sentence,
\* the boilerplate sentence, a line with blanks to normalise, the first line
\* with a terminator, and one with a keyword (no line comes near
\* MAX_OTHER_LEN characters)
LinePlain == <<"A">> \o Filler(14)
LineTwo == <<"B">> \o Filler(14) \o <<"maru", " ", "C">> \o Filler(14) \o <<"maru">>
LineTail == <<"D">> \o Filler(14) \o <<"maru", "E">> \o Filler(14)
LineStops == <<"maru", " ", "maru", " ", "maru", " ", "maru", " ", "maru", " ",
               "maru", " ", "maru", " ", "maru">>
LineShort == <<"F", "maru">>
LineBoiler == <<"1", "hi_ha", " ">> \o NATURAL_NUMBER \o IS_A \o Filler(14) \o <<"maru">>
LineBlanks == <<"\t", " ", "G", " ", "\t", " ">> \o Filler(14) \o <<NBSP>>
LinePlainStop == LinePlain \o <<"maru">>
LineSong == <<"kyoku">> \o Filler(14) \o <<"maru">>

OtherLines == {LinePlain, LineTwo, LineTail, LineStops, LineShort, LineBoiler,
               LineBlanks, LinePlainStop, LineSong}

\* the texts: up to MaxLines lines, and some with blank lines between
OtherTexts ==
    {Join(ls, "\n") : ls \in UNION {[1..n -> OtherLines] : n \in 0..MaxLines}}
    \cup {LinePlain \o <<"\n", "\n", "\n">> \o LineTwo, <<"\n", " ", "\n">>}

InitOther ==
    /\ plain \in OtherTexts
    /\ max_candidates \in {2, MAX_CANDIDATES}
    /\ line_candidates = <<>> /\ extracted = NotExtracted
    /\ pc = "other"
    /\ SelectionIdle /\ SectionIdle /\ LoadIdle /\ BatchIdle /\ HttpIdle /\ SuperIdle

\* the call on a text whose normal form is text
ExtractFrom(text) ==
    IF text = <<>>
    THEN /\ line_candidates' = <<>>
         /\ extracted' = ExtractedList(<<>>)
    ELSE /\ line_candidates' = LineCandidates(TextLines(text))
         /\ extracted' = ExtractedList(RankedOther(LineCandidates(TextLines(text)), max_candidates))

\* extract_other_candidate_items_from_plain_text(plain, max_candidates)
Extract ==
    /\ pc = "other"
    /\ ExtractFrom(CleanTextPreserveNewlines(plain))
    /\ pc' = "other_done"
    /\ UNCHANGED <<plain, max_candidates, selVars, scoreVars, fameVars, offline, term_freq,
                   searchhits_cache, sectionVars, loadVars, batchVars, httpVars, superVars>>

NextOther == Extract

SpecOther == InitOther /\ [][NextOther]_vars

(***************************************************************************)
(* The supervising scripts tools/refresh_and_generate_all.py and           *)
(* tools/full_refresh_generate.py: main() of each, run_with_heartbeat of   *)
(* each, and the child process they start.  Time is counted in passes of   *)
(* the polling loop (one time.sleep(1) each); timeout_sec is TimeoutPolls  *)
(* of them.                                                                *)
(***************************************************************************)
TimeoutPolls == 2
RAGA == "refresh_and_generate_all"
FRG == "full_refresh_generate"

RangeSpec(label, start, end) == [label |-> label, start |-> start, end |-> end]

RANGES == <<
    RangeSpec("0-99", 0, 99),
    RangeSpec("100-199", 100, 199),
    RangeSpec("200-299", 200, 299),
    RangeSpec("300-399", 300, 399),
    RangeSpec("400-499", 400, 499),
    RangeSpec("500-599", 500, 599),
    RangeSpec("600-699", 600, 699),
    RangeSpec("700-799", 700, 799),
    RangeSpec("800-899", 800, 899),
    RangeSpec("900-999", 900, 999)>>

\* the exit codes of a child that ends by itself
ExitCodes == {0, 1}

\* the exit codes of a child ended by a signal that was sent to it
SignalCodes(p) ==
    (IF p.terminated THEN {0 - 15} ELSE {}) \cup (IF p.killed THEN {0 - 9} ELSE {})

Running == RunResult("running", 0, "none")
Returned(code) == RunResult("returned", code, "none")
RaisedError(error) == RunResult("raised", 1, error)

\* one call of the generator: with the refresh flags or with --offline, how
\* run_with_heartbeat ended for it, and the exit code when the child exited
Invocation(online, outcome, rc) == [online |-> online, outcome |-> outcome, rc |-> rc]

\* the log with the outcome of the last call filled in
Closed(invs, outcome, rc) ==
    [invs EXCEPT ![Len(invs)] = Invocation(invs[Len(invs)].online, outcome, rc)]

\* how a heartbeat that has ended is logged
OutcomeOf(h, p) ==
    IF h = "timeout" THEN "timeout"
    ELSE IF p.rc = 0 THEN "ok" ELSE "failed"
RcOf(h, p) == IF h = "timeout" THEN 0 ELSE p.rc

HeartbeatEnded == hb \in {"returned", "called_process_error", "timeout"}

InitSupervise ==
    /\ script \in {RAGA, FRG}
    /\ step = (IF script = RAGA THEN "range" ELSE "start")
    /\ range_index = (IF script = RAGA THEN 1 ELSE 0)
    /\ net_probe = FALSE
    /\ invocations = <<>> /\ generated = <<>> /\ proc = NoProc /\ elapsed = 0
    /\ hb = "idle" /\ result = Running /\ link_check = "none"
    /\ pc = "supervise"
    /\ SelectionIdle /\ SectionIdle /\ LoadIdle /\ BatchIdle /\ HttpIdle /\ ExtractIdle

\* what no action of the supervising scripts changes
superFrame == <<script, pc, selVars, scoreVars, fameVars, offline, term_freq,
                searchhits_cache, sectionVars, loadVars, batchVars, httpVars, extractVars>>

\* subprocess.Popen(args, cwd=ROOT) and the first two lines of
\* run_with_heartbeat
Popen(what) ==
    /\ proc' = Child(what, "running", 0, FALSE, FALSE)
    /\ elapsed' = 0
    /\ hb' = "poll"

\* the child process ends, by itself or by a signal it was sent
ChildExits ==
    /\ proc.state = "running"
    /\ \E rc \in ExitCodes \cup SignalCodes(proc) :
         proc' = Child(proc.what, "exited", rc, proc.terminated, proc.killed)
    /\ UNCHANGED <<step, range_index, net_probe, invocations, generated, elapsed, hb,
                   result, link_check, superFrame>>

\* proc.terminate()
Terminated(p) == Child(p.what, p.state, p.rc, TRUE, p.killed)

\* a variant that lets the child run when it outlives the five seconds
WaitFive_NoKill(p) == p

\* proc.wait(timeout=5) and, when it raises, proc.kill()
WaitFive(p) ==
    IF p.state = "exited" THEN p ELSE Child(p.what, p.state, p.rc, p.terminated, TRUE)

\* one pass of `while True` in run_with_heartbeat.  In
\* refresh_and_generate_all a non-zero exit code raises CalledProcessError
\* and the timeout raises TimeoutExpired, which the finally block handles;
\* in full_refresh_generate the exit code is returned and the timeout
\* branch itself calls terminate().
Poll ==
    /\ hb = "poll"
    /\ IF proc.state = "exited"
       THEN /\ hb' = (IF script = RAGA /\ proc.rc # 0 THEN "called_process_error"
                      ELSE "returned")
            /\ UNCHANGED <<proc, elapsed>>
       ELSE IF elapsed > TimeoutPolls
       THEN IF script = RAGA
            THEN hb' = "finally" /\ UNCHANGED <<proc, elapsed>>
            ELSE hb' = "wait" /\ proc' = Terminated(proc) /\ UNCHANGED elapsed
       ELSE elapsed' = elapsed + 1 /\ UNCHANGED <<hb, proc>>
    /\ UNCHANGED <<step, range_index, net_probe, invocations, generated, result,
                   link_check, superFrame>>

\* the finally block of refresh_and_generate_all.run_with_heartbeat with
\* TimeoutExpired pending: `if proc.poll() is None: proc.terminate()`
Finally ==
    /\ hb = "finally"
    /\ IF proc.state = "exited"
       THEN hb' = "timeout" /\ UNCHANGED proc
       ELSE hb' = "wait" /\ proc' = Terminated(proc)
    /\ UNCHANGED <<step, range_index, net_probe, invocations, generated, elapsed, result,
                   link_check, superFrame>>

\* proc.wait(timeout=5), proc.kill() when the child is still there, and the
\* timeout error leaves run_with_heartbeat (in full_refresh_generate through
\* a finally block that calls terminate() once more)
Wait ==
    /\ hb = "wait"
    /\ proc' = WaitFive(proc)
    /\ hb' = "timeout"
    /\ UNCHANGED <<step, range_index, net_probe, invocations, generated, elapsed, result,
                   link_check, superFrame>>

\* main() of refresh_and_generate_all is left by an exception
Abort(error) ==
    /\ result' = RaisedError(error)
    /\ step' = "ended"

\* the head of the loop body for one range: network_ok(), the mtimes of the
\* first and last number file (stat raises when one is missing) and the
\* first _run_generate
StartRange ==
    /\ script = RAGA /\ step = "range"
    /\ \E w_ok, d_ok, stat_ok \in BOOLEAN :
         /\ net_probe' = (w_ok /\ d_ok)
         /\ IF stat_ok
            THEN /\ invocations' = <<Invocation(w_ok /\ d_ok, "running", 0)>>
                 /\ Popen("generator")
                 /\ step' = "generate"
                 /\ UNCHANGED result
            ELSE /\ Abort("FileNotFoundError")
                 /\ invocations' = <<>>
                 /\ UNCHANGED <<proc, elapsed, hb>>
    /\ UNCHANGED <<range_index, generated, link_check, superFrame>>

\* a variant that falls back to the offline call whatever the probe said
RetriesOffline_WithoutProbe(n, invs) == Len(invs) = 1

\* the two except clauses of main(): the failed call is the one in the try
\* block and the probe had succeeded
RetriesOffline(n, invs) == n /\ Len(invs) = 1

\* the exception that left run_with_heartbeat
ErrorOf(h) == IF h = "timeout" THEN "TimeoutExpired" ELSE "CalledProcessError"

\* the rest of the loop body after a generator call that succeeded: the
\* mtimes again, then the next range or, after the last, the link check
RangeDone(stat_ok) ==
    /\ generated' = Append(generated, RANGES[range_index].label)
    /\ IF ~stat_ok THEN Abort("FileNotFoundError") /\ UNCHANGED range_index
       ELSE IF range_index < Len(RANGES)
       THEN step' = "range" /\ range_index' = range_index + 1 /\ UNCHANGED result
       ELSE step' = "link_check" /\ UNCHANGED <<range_index, result>>

\* run_with_heartbeat has ended in _run_generate: the try statement of main()
AfterGenerate ==
    /\ script = RAGA /\ step = "generate" /\ HeartbeatEnded
    /\ IF hb = "returned"
       THEN /\ \E stat_ok \in BOOLEAN : RangeDone(stat_ok)
            /\ invocations' = Closed(invocations, "ok", 0)
            /\ hb' = "idle"
            /\ UNCHANGED <<proc, elapsed>>
       ELSE IF RetriesOffline(net_probe, invocations)
       THEN /\ invocations' = Append(Closed(invocations, OutcomeOf(hb, proc), RcOf(hb, proc)),
                                     Invocation(FALSE, "running", 0))
            /\ Popen("generator")
            /\ UNCHANGED <<step, range_index, generated, result>>
       ELSE /\ invocations' = Closed(invocations, OutcomeOf(hb, proc), RcOf(hb, proc))
            /\ Abort(ErrorOf(hb))
            /\ hb' = "idle"
            /\ UNCHANGED <<proc, elapsed, range_index, generated>>
    /\ UNCHANGED <<net_probe, link_check, superFrame>>

\* run_checked([python_exe, "tools/check_internal_links.py"]) and the end of
\* main()
RunChecked ==
    /\ script = RAGA /\ step = "link_check"
    /\ \E rc \in ExitCodes :
         /\ link_check' = (IF rc = 0 THEN "ok" ELSE "failed")
         /\ result' = (IF rc = 0 THEN Returned(0) ELSE RaisedError("RuntimeError"))
    /\ step' = "ended"
    /\ UNCHANGED <<range_index, net_probe, invocations, generated, proc, elapsed, hb,
                   superFrame>>

\* main() of full_refresh_generate up to the first run_with_heartbeat
StartFull ==
    /\ script = FRG /\ step = "start"
    /\ invocations' = <<Invocation(TRUE, "running", 0)>>
    /\ Popen("generator")
    /\ step' = "generate"
    /\ UNCHANGED <<range_index, net_probe, generated, result, link_check, superFrame>>

\* a variant that goes on to the link check whatever the generator returned
LinkCheckFollows_Always(rc) == TRUE

\* `if rc != 0: return rc` is not taken
LinkCheckFollows(rc) == rc = 0

\* the first run_with_heartbeat of full_refresh_generate has ended
AfterFull ==
    /\ script = FRG /\ step = "generate" /\ HeartbeatEnded
    /\ invocations' = Closed(invocations, OutcomeOf(hb, proc), RcOf(hb, proc))
    /\ IF hb = "timeout"
       THEN /\ result' = RaisedError("TimeoutError") /\ step' = "ended" /\ hb' = "idle"
            /\ UNCHANGED <<proc, elapsed, link_check>>
       ELSE IF LinkCheckFollows(proc.rc)
       THEN /\ Popen("link_check")
            /\ link_check' = "running"
            /\ step' = "link_check"
            /\ UNCHANGED result
       ELSE /\ result' = Returned(proc.rc) /\ step' = "ended" /\ hb' = "idle"
            /\ UNCHANGED <<proc, elapsed, link_check>>
    /\ UNCHANGED <<range_index, net_probe, generated, superFrame>>

\* the second run_with_heartbeat of full_refresh_generate has ended
AfterLinkCheck ==
    /\ script = FRG /\ step = "link_check" /\ HeartbeatEnded
    /\ link_check' = OutcomeOf(hb, proc)
    /\ result' = (IF hb = "timeout" THEN RaisedError("TimeoutError") ELSE Returned(proc.rc))
    /\ step' = "ended"
    /\ hb' = "idle"
    /\ UNCHANGED <<range_index, net_probe, invocations, generated, proc, elapsed, superFrame>>

NextSupervise ==
    \/ StartRange \/ AfterGenerate \/ RunChecked
    \/ StartFull \/ AfterFull \/ AfterLinkCheck
    \/ Poll \/ Finally \/ Wait
    \/ ChildExits

SpecSupervise == InitSupervise /\ [][NextSupervise]_vars

(***************************************************************************)
(* Properties of the selectors, stated on what the two calls returned.     *)
(***************************************************************************)
CurrentReturned == pc \in {"select_legacy", "done"}
LegacyReturned == pc = "done"

\* no two entries of lst are equal after whitespace normalisation
NoDuplicates(lst) ==
    \A i, j \in 1..Len(lst) : i # j => CleanText(lst[i]) # CleanText(lst[j])

\* the positions of candidates that hold the first occurrence of a non-empty
\* normalised string
FirstOccurrences ==
    {i \in 1..Len(candidates) :
        /\ CleanText(candidates[i]) # <<>>
        /\ \A j \in 1..(i - 1) : CleanText(candidates[j]) # CleanText(candidates[i])}

\* lst is the normalised candidates at their first occurrences, in order
IsFirstOccurrenceList(lst) ==
    /\ Len(lst) = Cardinality(FirstOccurrences)
    /\ \A i \in FirstOccurrences :
         lst[Cardinality({j \in FirstOccurrences : j <= i})] = CleanText(candidates[i])

\* C1: the list either selector returns holds no two entries that are equal
\* after whitespace normalisation, and the pool it selects from is the
\* normalised candidates with only the first occurrence of each kept.
Thm_C1_NoDuplicates ==
    /\ CurrentReturned =>
         /\ NoDuplicates(selected_current.result)
         /\ IsFirstOccurrenceList(selected_current.cleaned)
    /\ LegacyReturned =>
         /\ NoDuplicates(selected_legacy.result)
         /\ IsFirstOccurrenceList(selected_legacy.cleaned)

\* both selectors returned at least two entries out of candidates that
\* repeat a string up to whitespace
Wit_C1_RepeatedCandidate ==
    /\ LegacyReturned
    /\ \E i, j \in 1..Len(candidates) :
          i < j /\ candidates[i] # candidates[j]
                /\ CleanText(candidates[i]) = CleanText(candidates[j])
    /\ Len(selected_current.result) >= 2
    /\ Len(selected_legacy.result) >= 2

\* the declared pins, normalised, blank ones dropped: position i of the
\* result holds pins that are declared and not blank
DeclaredPins ==
    LET idx == {i \in 1..Len(pinned_substrings) : CleanText(pinned_substrings[i]) # <<>>}
    IN  [k \in 1..Cardinality(idx) |->
            CleanText(pinned_substrings[CHOOSE i \in idx : Cardinality({j \in idx : j <= i}) = k])]

\* the entries of the result taken by pins, and those taken by score
PinnedPart(o) == SubSeq(o.result, 1, Min(Len(o.pinned), Len(o.result)))
ScoredPart(o) == SubSeq(o.result, Len(PinnedPart(o)) + 1, Len(o.result))

\* every declared pin that occurs in some candidate of the pool occurs in an
\* entry of the pinned part
EveryMatchingPinServed(o) ==
    \A i \in 1..Len(DeclaredPins) :
        (\E c \in 1..Len(o.cleaned) : Contains(DeclaredPins[i], o.cleaned[c]))
        => \E k \in 1..Len(PinnedPart(o)) : Contains(DeclaredPins[i], PinnedPart(o)[k])

\* the pinned entries lead the result, no entry taken by score is one of
\* them, and they stand in the order of the pins that took them
PinnedFirstInPinOrder(o) ==
    /\ PinnedPart(o) = SubSeq(o.pinned, 1, Len(PinnedPart(o)))
    /\ \A k \in 1..Len(ScoredPart(o)) : ~InList(ScoredPart(o)[k], o.pinned)
    /\ \E m \in [1..Len(PinnedPart(o)) -> 1..Len(DeclaredPins)] :
         /\ \A k \in DOMAIN m : Contains(DeclaredPins[m[k]], PinnedPart(o)[k])
         /\ \A k, l \in DOMAIN m : k < l => m[k] <= m[l]

\* C2 as stated: under both policies every pin that matches a candidate of
\* the pool has its candidate in the result, and the pin-matched candidates
\* precede the score-selected ones in pin-declaration order.
Orig_C2_PinsAlwaysServed ==
    /\ CurrentReturned =>
         EveryMatchingPinServed(selected_current) /\ PinnedFirstInPinOrder(selected_current)
    /\ LegacyReturned =>
         EveryMatchingPinServed(selected_legacy) /\ PinnedFirstInPinOrder(selected_legacy)

\* C2 amended: under the threshold-inclusive policy every pin that matches a
\* candidate of the pool has a matching candidate in the result; under the
\* legacy policy it has one whenever fewer than `limit` candidates were taken
\* by pins (the pinned part is capped at `limit`); under both policies the
\* pin-selected candidates precede every score-selected one, in the order in
\* which their pins were declared.
Thm_C2_PinsFirst ==
    /\ CurrentReturned =>
         EveryMatchingPinServed(selected_current) /\ PinnedFirstInPinOrder(selected_current)
    /\ LegacyReturned =>
         /\ Len(selected_legacy.pinned) < limit => EveryMatchingPinServed(selected_legacy)
         /\ PinnedFirstInPinOrder(selected_legacy)

\* two pins took two different candidates and a third candidate was
\* selected by score behind them, under both policies
Wit_C2_TwoPinsThenScored ==
    /\ LegacyReturned
    /\ Len(DeclaredPins) = 2
    /\ Len(selected_current.pinned) = 2 /\ Len(ScoredPart(selected_current)) >= 1
    /\ Len(selected_legacy.pinned) = 2 /\ Len(ScoredPart(selected_legacy)) >= 1

\* C3: under both policies each pin takes at most one candidate, the first
\* candidate not yet taken that contains it, so the pinned entries are never
\* more than the declared pins.
Orig_C3_OnePinOneCandidate ==
    /\ CurrentReturned => Len(selected_current.pinned) <= Len(DeclaredPins)
    /\ LegacyReturned => Len(selected_legacy.pinned) <= Len(DeclaredPins)

\* C4: the legacy policy returns at most `limit` entries, pinned ones included.
Thm_C4_LegacyAtMostLimit ==
    LegacyReturned => Len(selected_legacy.result) <= limit

\* the legacy policy had more candidates than `limit`, took some by pin and
\* returned exactly `limit`
Wit_C4_LegacyCapped ==
    /\ LegacyReturned
    /\ Len(selected_legacy.cleaned) > limit
    /\ Len(selected_legacy.pinned) >= 1
    /\ Len(selected_legacy.result) = limit
    /\ Len(selected_current.result) > limit

\* the tuple (importance, fame, uniq, len, s) that was scored for s
TupleOf(o, str) == o.scored[CHOOSE i \in 1..Len(o.scored) : o.scored[i][5] = str]

\* a ranks strictly above b by (importance, fame, uniqueness, length)
RankAbove(a, b) ==
    \/ a[1] > b[1]
    \/ a[1] = b[1] /\ a[2] > b[2]
    \/ a[1] = b[1] /\ a[2] = b[2] /\ a[3] > b[3]
    \/ a[1] = b[1] /\ a[2] = b[2] /\ a[3] = b[3] /\ a[4] > b[4]

\* the non-pinned candidates whose importance meets the threshold
Meeting(o) == {o.scored[i][5] : i \in {k \in 1..Len(o.scored) : o.scored[k][1] >= threshold}}
NonPinned(o) == {o.scored[i][5] : i \in 1..Len(o.scored)}
InPart(part) == {part[k] : k \in 1..Len(part)}

\* C5: threshold-inclusive policy.  With at least `limit` non-pinned
\* candidates meeting the threshold the result is the pinned entries followed
\* by all of them and nothing else; otherwise its non-pinned part has exactly
\* min(limit, number of non-pinned candidates) entries: every candidate
\* meeting the threshold, then the best-ranked ones below it.
Thm_C5_ThresholdInclusive ==
    CurrentReturned =>
      LET o == selected_current
          rest == ScoredPart(o)
      IN  /\ PinnedPart(o) = o.pinned
          /\ IF Cardinality(Meeting(o)) >= limit
             THEN /\ Len(rest) = Cardinality(Meeting(o))
                  /\ InPart(rest) = Meeting(o)
             ELSE /\ Len(rest) = Min(limit, Cardinality(NonPinned(o)))
                  /\ Meeting(o) \subseteq InPart(rest)
                  /\ InPart(rest) \subseteq NonPinned(o)
                  /\ \A k, l \in 1..Len(rest) :
                        k < l /\ rest[l] \in Meeting(o) => rest[k] \in Meeting(o)
                  /\ \A x \in InPart(rest), y \in NonPinned(o) \ InPart(rest) :
                        ~RankAbove(TupleOf(o, y), TupleOf(o, x))

\* the threshold-inclusive policy returned more than `limit` entries, all
\* meeting the threshold, and left a candidate below the threshold out
Wit_C5_MoreThanLimit ==
    /\ CurrentReturned
    /\ Cardinality(Meeting(selected_current)) > limit
    /\ Len(ScoredPart(selected_current)) > limit
    /\ NonPinned(selected_current) # Meeting(selected_current)

\* the score-selected part of o is ordered by non-increasing rank, and no
\* non-pinned candidate left out is more important than one that is in
ScoredPartRanked(o) ==
    LET rest == ScoredPart(o)
    IN  /\ \A k, l \in 1..Len(rest) :
             k < l => ~RankAbove(TupleOf(o, rest[l]), TupleOf(o, rest[k]))
        /\ \A x \in InPart(rest), y \in NonPinned(o) \ InPart(rest) :
             TupleOf(o, y)[1] <= TupleOf(o, x)[1]

\* C6: under both policies the score-selected part of the result is ordered
\* by non-increasing (importance, fame, uniqueness, length), and no
\* non-pinned candidate left out has a higher importance than one included.
Thm_C6_RankedByImportance ==
    /\ CurrentReturned => ScoredPartRanked(selected_current)
    /\ LegacyReturned => ScoredPartRanked(selected_legacy)

\* both policies selected two candidates by score, of different rank, and
\* left a third one out
Wit_C6_TwoRankedOneLeftOut ==
    /\ LegacyReturned
    /\ \A o \in {selected_current, selected_legacy} :
         /\ Len(ScoredPart(o)) = 2
         /\ RankAbove(TupleOf(o, ScoredPart(o)[1]), TupleOf(o, ScoredPart(o)[2]))
         /\ NonPinned(o) \ InPart(ScoredPart(o)) # {}

\* the first min(limit, length) entries of lst
FirstLimit(lst) == SubSeq(lst, 1, IF Len(lst) < limit THEN Len(lst) ELSE limit)

\* the search service answering as it answered the first call: the hit
\* counts that call stored, 0 hits for a query it did not send
Replay(cache) ==
    [q \in ScoringTermsOf(candidates) |->
        [raises |-> FALSE, totalhits |-> IF q \in DOMAIN cache THEN cache[q] ELSE 0]]

\* C7: with no pins, the legacy policy returns exactly the first
\* min(limit, length) entries of what the threshold-inclusive policy returns,
\* both when it runs after it on the shared cache and when it runs on the
\* same initial cache against the same answers of the search service; the
\* two lists are identical when at most `limit` candidates meet the threshold.
Thm_C7_LegacyIsPrefix ==
    (LegacyReturned /\ Len(DeclaredPins) = 0) =>
      /\ selected_legacy.result = FirstLimit(selected_current.result)
      /\ SelectByImportanceLegacy(candidates, term_freq, InitialCache, offline, limit,
                                  threshold, kind, pinned_substrings,
                                  Replay(selected_current.cache)).result
         = FirstLimit(selected_current.result)
      /\ Cardinality(Meeting(selected_current)) <= limit
         => selected_legacy.result = selected_current.result

\* no pins, the threshold-inclusive policy returned more than `limit`
\* entries after querying the search service, the legacy policy `limit`
Wit_C7_LongerThanLimit ==
    /\ LegacyReturned
    /\ Len(DeclaredPins) = 0
    /\ Len(selected_current.queries) >= 1
    /\ Len(selected_current.result) > limit
    /\ Len(selected_legacy.result) = limit

(***************************************************************************)
(* Properties of the scores of one term.                                   *)
(***************************************************************************)
Scored1 == pc = "scored"

\* the term is one the tables are looked up with
HasKey == term # None /\ CleanText(term) # <<>>

\* the frequency the uniqueness score was computed from
FreqOfTerm == IF KeyOf(term) \in DOMAIN term_freq THEN term_freq[KeyOf(term)] ELSE 0

\* C8: for every term or none, hit count, frequency and flag combination,
\* fame and uniqueness are integers in 1..10 and the importance, their
\* clamped product, is in 1..100.
Thm_C8_ScoreRanges ==
    Scored1 =>
      /\ fame \in 1..10
      /\ uniq \in 1..10
      /\ importance \in 1..100
      /\ importance = fame * uniq

\* a term fetched from the search service reached the top of all three scores
Wit_C8_TopScores ==
    /\ Scored1 /\ HasKey /\ ~offline /\ allow_fetch
    /\ searchhits_cache # <<>>
    /\ fame = 10 /\ uniq = 10 /\ importance = 100

\* C9: the uniqueness score does not grow with the term frequency (every
\* frequency of 0..MaxFreq is scored, and the score at a frequency is at most
\* the score at the frequency below it); it is 10 at the low end and 1 at
\* the high end.
Thm_C9_UniquenessMonotone ==
    (Scored1 /\ HasKey) =>
      /\ FreqOfTerm >= 1 =>
           uniq <= EstimateUniquenessScore(term, (KeyOf(term) :> (FreqOfTerm - 1)))
      /\ FreqOfTerm = 0 => uniq = 10
      /\ FreqOfTerm >= 1000 => uniq = 1

\* a term of frequency 1000 was scored 1
Wit_C9_HighEnd == Scored1 /\ HasKey /\ FreqOfTerm = 1000 /\ uniq = 1

\* C10 as stated: the uniqueness score is 10 at frequency 1, 7 at frequency
\* 10, 5 at frequency 100 and 2 at frequency 1000.
Orig_C10_UniquenessValues ==
    (Scored1 /\ HasKey) =>
      /\ FreqOfTerm = 1 => uniq = 10
      /\ FreqOfTerm = 10 => uniq = 7
      /\ FreqOfTerm = 100 => uniq = 5
      /\ FreqOfTerm = 1000 => uniq = 2

\* C10 amended: the uniqueness score is 10 at frequency 1, 7 at frequency
\* 10, 4 at frequency 100 and 1 at frequency 1000 (5 and 2 are the scores at
\* frequencies 99 and 999).
Thm_C10_UniquenessValues ==
    (Scored1 /\ HasKey) =>
      /\ FreqOfTerm = 1 => uniq = 10
      /\ FreqOfTerm = 10 => uniq = 7
      /\ FreqOfTerm = 100 => uniq = 4
      /\ FreqOfTerm = 1000 => uniq = 1
      /\ FreqOfTerm = 99 => uniq = 5
      /\ FreqOfTerm = 999 => uniq = 2

\* a term of frequency 100 was scored
Wit_C10_Frequency100 == Scored1 /\ HasKey /\ FreqOfTerm = 100 /\ uniq = 4

(***************************************************************************)
(* Properties of the fame estimator.                                       *)
(***************************************************************************)
\* the call is one that must not fetch: no term, an empty one, offline, or
\* fetching not allowed
NoFetchCase == term = None \/ CleanText(term) = <<>> \/ offline \/ ~allow_fetch

\* the score the call must return then
FallbackFame ==
    IF term = None \/ CleanText(term) = <<>> THEN 4
    ELSE IF term \in {TermKana, TermIso, TermJis} THEN 6
    ELSE 5

\* C18: when the term is absent or empty, or offline is true, or allow_fetch
\* is false, the call of the fame estimator sends no search request and
\* leaves the search-hit cache as it was; it returns 4 for no term, else 6
\* for a katakana-run or ISO/JIS term and 5 for any other term.
Thm_C18_NoFetchFallback ==
    [][(pc = "score" /\ NoFetchCase) =>
          /\ sent' = sent
          /\ searchhits_cache' = searchhits_cache
          /\ fame' = FallbackFame]_vars

\* online with fetching not allowed, a katakana term whose cache entry says
\* 0 hits was scored 6 and the entry is still there
Wit_C18_CachedTermNotRead ==
    /\ Scored1 /\ ~offline /\ ~allow_fetch
    /\ term = TermKana /\ searchhits_cache = (TermKana :> 0)
    /\ fame = 6 /\ sent = <<>>

\* no term was requested twice
NoRepeatedRequest ==
    \A i, j \in 1..Len(sent) : sent[i].query = sent[j].query => i = j

\* a request that failed left the entry 0 for its term
FailureStoredAsZero ==
    \A i \in 1..Len(sent) :
        sent[i].failed =>
            /\ sent[i].query \in DOMAIN searchhits_cache
            /\ searchhits_cache[sent[i].query] = 0

\* a step keeps every entry of the cache, and requests only terms that have
\* no entry
KeepsEntries ==
    /\ \A k \in DOMAIN searchhits_cache :
           k \in DOMAIN searchhits_cache' /\ searchhits_cache'[k] = searchhits_cache[k]
    /\ \A i \in (Len(sent) + 1)..Len(sent') :
           sent'[i].query \notin DOMAIN searchhits_cache

\* C16: over a run of fame estimations that share one search-hit cache, each
\* normalized term is requested from the search service at most once, a
\* failed request is stored as 0 hits and not repeated, and an entry of the
\* cache is never changed or removed.
Thm_C16_OneRequestPerTerm ==
    /\ [](NoRepeatedRequest /\ FailureStoredAsZero)
    /\ [][KeepsEntries]_vars

\* the request for a term failed, and the term (with other whitespace) was
\* estimated again online with fetching allowed, without a second request
Wit_C16_FailedTermAskedAgain ==
    /\ ~offline
    /\ Len(sent) = 1 /\ sent[1].failed /\ sent[1].query = TermAB
    /\ \E i, j \in 1..Len(estimated) :
         /\ i < j
         /\ estimated[i].term = TermABSpaced /\ estimated[i].allow_fetch
         /\ estimated[j].term = TermAB /\ estimated[j].allow_fetch

(***************************************************************************)
(* Properties of the search requests of a selector call.                   *)
(***************************************************************************)
\* the candidates the call scored: the cleaned ones the pins did not take
Unpinned(o) == Without(o.cleaned, o.pinned)

\* s is among the six first of the unpinned candidates in descending order
\* of (heuristic score, length), candidates of equal rank in list order
AmongTopSix(o, s) ==
    LET lst == Unpinned(o)
        before(d, c) ==
            \/ Heur(kind, lst[d]) > Heur(kind, lst[c])
            \/ Heur(kind, lst[d]) = Heur(kind, lst[c]) /\ Len(lst[d]) > Len(lst[c])
            \/ Heur(kind, lst[d]) = Heur(kind, lst[c]) /\ Len(lst[d]) = Len(lst[c]) /\ d < c
    IN  \E c \in 1..Len(lst) :
            /\ lst[c] = s
            /\ Cardinality({d \in 1..Len(lst) : before(d, c)}) < 6

\* the normalized scoring terms of the top six
TopSixTerms(o) ==
    {CleanText(ExtractScoringTerm(s)) :
        s \in {x \in {o.cleaned[i] : i \in 1..Len(o.cleaned)} :
                  AmongTopSix(o, x) /\ ExtractScoringTerm(x) # None}}

\* at most six requests, each for a term of the top six
RequestsBounded(o) ==
    /\ Len(o.queries) <= 6
    /\ \A i \in 1..Len(o.queries) : o.queries[i] \in TopSixTerms(o)

\* the fame of the scored entry e is the no-fetch fallback (the terms of
\* these candidates are plain: 5, and 4 for no term)
ScoredByFallback(e) == e[2] = (IF ExtractScoringTerm(e[5]) = None THEN 4 ELSE 5)

\* every candidate outside the top six was scored with the fallback
OthersByFallback(o) ==
    \A i \in 1..Len(o.scored) :
        ~AmongTopSix(o, o.scored[i][5]) => ScoredByFallback(o.scored[i])

\* every candidate whose term is not a term of the top six was scored with
\* the fallback
OtherTermsByFallback(o) ==
    \A i \in 1..Len(o.scored) :
        (\/ ExtractScoringTerm(o.scored[i][5]) = None
         \/ CleanText(ExtractScoringTerm(o.scored[i][5])) \notin TopSixTerms(o))
        => ScoredByFallback(o.scored[i])

\* C17 as stated: a selector call sends at most 6 search requests, only for
\* scoring terms of the 6 top heuristic-ranked unpinned candidates, and
\* every other candidate is scored with the no-fetch fallback.
Orig_C17_OthersNotFetched ==
    /\ (CurrentReturned /\ ~offline) =>
         RequestsBounded(selected_current) /\ OthersByFallback(selected_current)
    /\ (LegacyReturned /\ ~offline) =>
         RequestsBounded(selected_legacy) /\ OthersByFallback(selected_legacy)

\* C17 amended: a selector call sends at most 6 search requests, only for
\* scoring terms of the 6 top heuristic-ranked unpinned candidates; every
\* candidate whose scoring term is not one of those terms (or that has none)
\* is scored with the no-fetch fallback, while a lower-ranked candidate that
\* shares its term with one of the top 6 is scored from the hit count.
Thm_C17_AtMostSixRequests ==
    /\ (CurrentReturned /\ ~offline) =>
         RequestsBounded(selected_current) /\ OtherTermsByFallback(selected_current)
    /\ (LegacyReturned /\ ~offline) =>
         RequestsBounded(selected_legacy) /\ OtherTermsByFallback(selected_legacy)

\* the current policy sent six requests for eight candidates; the candidate
\* ranked last shares term A1 with the first and was scored from the hit
\* count, not with the fallback
Wit_C17_SixRequestsSharedTerm ==
    /\ CurrentReturned /\ ~offline
    /\ Len(selected_current.cleaned) = 8 /\ selected_current.pinned = <<>>
    /\ Len(selected_current.queries) = 6
    /\ \E i \in 1..Len(selected_current.scored) :
         /\ selected_current.scored[i][5] = Quoted("1", 0)
         /\ ~AmongTopSix(selected_current, Quoted("1", 0))
         /\ ~ScoredByFallback(selected_current.scored[i])

(***************************************************************************)
(* Properties of the section lookup.                                       *)
(***************************************************************************)
\* the first position from i on whose title satisfies: equals the hint
\* ("exact"), starts with it ("prefix"), contains it ("substring")
RECURSIVE FirstMatch(_, _, _, _)
FirstMatch(secs, hint, how, i) ==
    IF i > Len(secs) THEN 0
    ELSE IF \/ how = "exact" /\ secs[i] = hint
            \/ how = "prefix" /\ StartsWith(secs[i], hint)
            \/ how = "substring" /\ Contains(hint, secs[i])
         THEN i
    ELSE FirstMatch(secs, hint, how, i + 1)

\* the section that the precedence exact, then prefix, then substring names
ByPrecedence(secs, hint) ==
    IF FirstMatch(secs, hint, "exact", 1) # 0 THEN FirstMatch(secs, hint, "exact", 1)
    ELSE IF FirstMatch(secs, hint, "prefix", 1) # 0 THEN FirstMatch(secs, hint, "prefix", 1)
    ELSE FirstMatch(secs, hint, "substring", 1)

\* C19: a lookup never raises (a network error yields an empty list), it
\* returns an empty list when no section title matches the hint, and the
\* section it asks the wikitext of is the first whose title equals the
\* hint, else the first whose title starts with it, else the first whose
\* title contains it.
Orig_C19_LookupPrecedence ==
    pc = "looked" =>
        /\ ~lookup.raised
        /\ ByPrecedence(sections, HintOf(kind)) = 0 => lookup.result = <<>>
        /\ lookup.target \in {0, ByPrecedence(sections, HintOf(kind))}

(***************************************************************************)
(* Properties of the loads.                                                *)
(***************************************************************************)
\* a file that is missing or malformed for loader l: absent, not JSON, JSON
\* that is not an object, or an object whose field is not an object
Malformed(f, l) ==
    \/ f.state # "json"
    \/ f.value.type # "dict"
    \/ FieldOf(l) \in DOMAIN f.value.fields /\ f.value.fields[FieldOf(l)].type # "dict"

\* C14: the load of a missing or malformed document raises no exception
\* and yields empty state, for the selection caches, the search-hit cache,
\* the pin configuration and the threshold overrides.
Orig_C14_LoadNeverFails ==
    (pc = "loaded" /\ Malformed(file, loader)) =>
        /\ ~loaded.raised
        /\ loaded.value = <<>>
        /\ loaded.legacy = <<>>

(***************************************************************************)
(* Properties of the batch calls.  What is persisted is read off the       *)
(* document in the file: a number has an entry in a field when the field   *)
(* has its decimal string as a key.                                        *)
(***************************************************************************)
HasField(f, field) ==
    /\ f.state = "json"
    /\ f.value.type = "dict"
    /\ field \in DOMAIN f.value.fields
    /\ f.value.fields[field].type = "dict"
HasEntry(f, field, n) == HasField(f, field) /\ Str(n) \in DOMAIN f.value.fields[field].fields
EntryOf(f, field, n) == f.value.fields[field].fields[Str(n)]
PersistedIn(f, field) == {n \in Numbers : HasEntry(f, field, n)}

\* the strings of a persisted list, in their order
RECURSIVE StringsOf(_)
StringsOf(elems) == IF elems = <<>> THEN <<>> ELSE <<elems[1].s>> \o StringsOf(Tail(elems))

\* the fields of the cache of a kind: one for intros, else one per policy
FirstField(k) == IF k = "intros" THEN "intros" ELSE CurrentField(k)
SecondField(k) == IF k = "intros" THEN "intros" ELSE LegacyField(k)

\* the call is past its load, or has returned
PastLoad == pc \notin {"idle"} \/ returned.returned
\* the call is past its fetches, or has returned
PastFetch == pc \in {"select", "save_hits", "save_hits_write", "save", "save_write", "return"} \/ returned.returned

\* the numbers the claim says are fetched
MissingBefore == {n \in SetOf(numbers) : ~HasEntry(file_before, FirstField(kind), n) \/ ~HasEntry(file_before, SecondField(kind), n)}
ExpectedFetch == IF offline THEN {} ELSE IF refresh THEN SetOf(numbers) ELSE MissingBefore

\* C11: in a call whose load did not raise, the numbers to fetch are none
\* when offline (refresh or not), every requested number when refresh and
\* not offline, and else the requested numbers that the file lacked in the
\* current map or in the legacy map (in the one map, for intros); no other
\* number is fetched, and once the fetches are over each of them has been.
Thm_C11_FetchSet ==
    PastLoad =>
        /\ to_fetch = ExpectedFetch
        /\ fetched \subseteq to_fetch
        /\ PastFetch => fetched = to_fetch

\* a call without refresh fetched number 2, which the file had in the
\* current map only, and not number 1, which it had in both
Wit_C11_MissingInLegacyOnly ==
    /\ pc = "idle" /\ returned.returned
    /\ kind = "property" /\ ~refresh /\ ~offline
    /\ numbers = <<1, 2>>
    /\ HasEntry(file_before, "properties", 2) /\ ~HasEntry(file_before, "properties_legacy", 2)
    /\ fetched = {2}

\* the call has saved its document, and was not ended before
Saved == wrote /\ pc \in {"return", "idle"}

\* C12: after the save of a call, every number outside the requested batch
\* that had an entry in the current or in the legacy map of the file before
\* the call has the same entry in the file.
Thm_C12_OthersPreserved ==
    Saved =>
        \A n \in Numbers \ SetOf(numbers) : \A field \in {FirstField(kind), SecondField(kind)} :
            HasEntry(file_before, field, n) =>
                /\ HasEntry(file, field, n)
                /\ EntryOf(file, field, n) = EntryOf(file_before, field, n)

\* the second call of a run saved a new selection for number 2 into a
\* file that already held selections of number 1 under both policies
Wit_C12_SecondCallKeepsFirst ==
    /\ Saved /\ runs = 2 /\ returned.returned
    /\ kind = "other" /\ numbers = <<2>>
    /\ HasEntry(file_before, "others", 1) /\ HasEntry(file_before, "others_legacy", 1)
    /\ ~HasEntry(file_before, "others", 2) /\ HasEntry(file, "others", 2)

\* what the file before the call holds for number n in a field, as the
\* call returns it: the list of strings, or the string for intros
PersistedValue(field, n) ==
    IF kind = "intros" THEN EntryOf(file_before, field, n).s
    ELSE StringsOf(EntryOf(file_before, field, n).elems)
InBoth(n) == HasEntry(file_before, FirstField(kind), n) /\ HasEntry(file_before, SecondField(kind), n)

\* C13: a call without refresh that returns gives, for every requested
\* number that the file had in both maps, the persisted lists (the same
\* strings in the same order), fetches none of these numbers, and leaves
\* the file as it was when there is nothing to fetch.
Thm_C13_RoundTrip ==
    (pc = "idle" /\ returned.returned /\ ~refresh) =>
        /\ \A n \in SetOf(numbers) :
             InBoth(n) =>
                /\ n \in DOMAIN returned.cur
                /\ returned.cur[n] = PersistedValue(FirstField(kind), n)
                /\ kind # "intros" => n \in DOMAIN returned.legacy
                /\ kind # "intros" => returned.legacy[n] = PersistedValue(SecondField(kind), n)
                /\ n \notin fetched
        /\ to_fetch = {} => ~wrote /\ file = file_before

\* the first call saved a selection of two lines for number 1, and the
\* second call, without refresh, returned it and wrote nothing
Wit_C13_SecondCallReturnsSaved ==
    /\ pc = "idle" /\ returned.returned /\ ~refresh /\ ~offline
    /\ runs = 2 /\ kind = "property" /\ numbers = <<1>>
    /\ HasField(file_before, "meta")
    /\ file_before.value.fields["meta"].fields["generated_at"].n = 1
    /\ InBoth(1)
    /\ Len(returned.cur[1]) = 2
    /\ ~wrote

\* C15: a call in which the fetch of a number failed returns all the same,
\* with every number to fetch fetched and the document saved.
Orig_C15_FailureContained ==
    (pc = "idle" /\ ~returned.killed /\ failed # {}) =>
        /\ returned.returned
        /\ fetched = to_fetch
        /\ wrote

\* C20: when the process is ended from outside, the cache file and the
\* search-hit cache file each hold a complete document (the one before the
\* call or the new one), never a part of one.
Orig_C20_AtomicSave ==
    (pc = "idle" /\ returned.killed) =>
        /\ file.state # "partial"
        /\ hits_file.state # "partial"

(***************************************************************************)
(* Properties of the term frequencies and of the fetches of a batch call.  *)
(***************************************************************************)
\* table g has every term of table f, with a count that is not smaller
NotBelow(f, g) == \A t \in DOMAIN f : t \in DOMAIN g /\ g[t] >= f[t]

\* C22: from the rebuild of the term-frequency table at the start of a
\* call until the call ends, no step removes a term of the table or makes
\* a count smaller.
Thm_C22_TermFreqMonotone == [][pc # "idle" => NotBelow(term_freq, term_freq')]_vars

\* the table was rebuilt with one count of the term AB and the two fetches
\* of the call have made it three
Wit_C22_CountGrew ==
    /\ pc = "select" /\ fetched = {1, 2}
    /\ BuildTermFrequencyFromItems(cached_all) = (TermAB :> 1)
    /\ term_freq = (TermAB :> 3)

\* the table that the fetch loop ends with: the rebuilt one and one count
\* more for each term of each fetched candidate
FinalTable == CountItems(fetched_candidates, DOMAIN fetched_candidates, BuildTermFrequencyFromItems(cached_all))

\* C27: when the selection loop starts every number to fetch has been
\* fetched and the term-frequency table holds the counts of the candidates
\* of all of them; the selection loop does not change the table, so every
\* number is scored against this one table.
SelectionAfterFetches == pc = "select" => fetched = to_fetch /\ term_freq = FinalTable
Thm_C27_FetchesBeforeSelection ==
    [](SelectionAfterFetches) /\ [][pc = "select" => term_freq' = term_freq]_vars

\* the selection loop has run for two numbers whose candidates share the
\* term AB, which the table counted twice before the first was scored
Wit_C27_BothCounted ==
    /\ pc = "save_hits"
    /\ DOMAIN fetched_candidates = {1, 2}
    /\ fetched_candidates[1] = <<CandQuoted, CandA>>
    /\ fetched_candidates[2] = <<CandQuoted, CandA>>
    /\ term_freq = (TermAB :> 2)
    /\ 1 \in DOMAIN cached_all /\ 2 \in DOMAIN cached_all

\* the numbers of the last call that were fetched and gave no candidates
FetchedNothing == fetched \ DOMAIN fetched_candidates

\* C25: after a call of the property or other function that returns, a
\* number that was fetched and gave no candidates has in the file the
\* entries it had before the call, under both policies, and the call
\* returns them for it.
Thm_C25_EmptyFetchKeepsOld ==
    (pc = "idle" /\ returned.returned /\ kind # "intros") =>
        \A n \in FetchedNothing :
            /\ HasEntry(file_before, CurrentField(kind), n) =>
                 /\ HasEntry(file, CurrentField(kind), n)
                 /\ EntryOf(file, CurrentField(kind), n) = EntryOf(file_before, CurrentField(kind), n)
                 /\ n \in DOMAIN returned.cur
                 /\ returned.cur[n] = PersistedValue(CurrentField(kind), n)
            /\ HasEntry(file_before, LegacyField(kind), n) =>
                 /\ HasEntry(file, LegacyField(kind), n)
                 /\ EntryOf(file, LegacyField(kind), n) = EntryOf(file_before, LegacyField(kind), n)
                 /\ n \in DOMAIN returned.legacy
                 /\ returned.legacy[n] = PersistedValue(LegacyField(kind), n)

\* a call with refresh fetched number 1, which had selections of two
\* lines, the request failed, and the call saved and returned the old lists
Wit_C25_RefreshFailedKeepsOld ==
    /\ pc = "idle" /\ returned.returned /\ kind = "property"
    /\ refresh /\ wrote /\ numbers = <<1, 2>>
    /\ failed = {1} /\ 2 \in DOMAIN fetched_candidates
    /\ HasEntry(file_before, "properties", 1)
    /\ Len(returned.cur[1]) = 2 /\ Len(returned.legacy[1]) = 2

\* no entry is added for a number that was fetched and gave no candidates
NoNegativeEntry ==
    (pc = "idle" /\ returned.returned /\ kind # "intros") =>
        \A n \in FetchedNothing : \A field \in {CurrentField(kind), LegacyField(kind)} :
            HasEntry(file, field, n) => HasEntry(file_before, field, n)

\* the step is the start of a call of the property or other function,
\* without refresh and not offline, that follows a call that returned, and
\* its load does not raise
FollowingCall ==
    /\ pc = "idle" /\ returned.returned /\ kind # "intros"
    /\ ~refresh' /\ ~offline' /\ ~returned'.raised

\* C26 as stated: every number that the former call fetched without
\* candidates is fetched again by a following call without refresh, not
\* offline, that requests it.
Orig_C26_AlwaysFetchedAgain ==
    [][FollowingCall => \A n \in FetchedNothing \cap SetOf(numbers') : n \in to_fetch']_vars

\* C26: a fetch that gives no candidates adds no entry for the number to
\* the map of either policy, and a number that so stays without an entry
\* under at least one policy is fetched again by the following call
\* without refresh, not offline, that requests it.
FetchedAgainIfMissing ==
    FollowingCall =>
        \A n \in FetchedNothing \cap SetOf(numbers') :
            (~HasEntry(file, CurrentField(kind), n) \/ ~HasEntry(file, LegacyField(kind), n))
                => n \in to_fetch'
Thm_C26_NoNegativeCaching == [](NoNegativeEntry) /\ [][FetchedAgainIfMissing]_vars

\* the first call fetched number 2, which had no entry, and got nothing;
\* the second call, without refresh, has it to fetch again
Wit_C26_FetchedAgain ==
    /\ runs = 1 /\ pc = "fetch" /\ ~refresh /\ ~offline
    /\ kind = "other" /\ numbers = <<2>> /\ to_fetch = {2}
    /\ unanswered = {2}
    /\ HasField(file, "meta")
    /\ file.value.fields["meta"].fields["generated_at"].n = 1
    /\ ~HasEntry(file, "others", 2) /\ ~HasEntry(file, "others_legacy", 2)

(***************************************************************************)
(* Properties of the retry loop of _http_get_json.                         *)
(***************************************************************************)
AllFailed == \A i \in 1..Len(attempts) : ~attempts[i].ok

\* at most max_retries + 1 attempts; a response is returned by the attempt
\* that first succeeds, which is the last one made; RuntimeError is raised
\* exactly when max_retries + 1 attempts were made and all failed; there is
\* at most one sleep per failed attempt, and none after the last of
\* max_retries + 1
RetryLoopBounded ==
    /\ Len(attempts) <= max_retries + 1
    /\ http = "returned" => attempts[Len(attempts)].ok
    /\ \A i \in 1..(Len(attempts) - 1) : ~attempts[i].ok
    /\ http = "runtime_error" <=> (Len(attempts) = max_retries + 1 /\ AllFailed)
    /\ Len(slept) <= max_retries
    /\ Len(slept) = (IF http = "running" THEN Len(attempts) ELSE Len(attempts) - 1)

\* C21: _http_get_json ends; it makes at most max_retries + 1 attempts,
\* returns the first successful response with no further attempt, raises
\* RuntimeError if and only if all max_retries + 1 attempts failed, and
\* does not sleep after the last failed attempt.
Thm_C21_BoundedRetry == [](RetryLoopBounded) /\ <>(http # "running")

\* four attempts failed, three sleeps were made, and RuntimeError is raised
Wit_C21_AllAttemptsFailed ==
    /\ http = "runtime_error" /\ max_retries = 3
    /\ Len(attempts) = 4 /\ Len(slept) = 3

\* the delay the server asks for in a 429 response, and the least sleep
\* that the status of a failed attempt calls for
LeastAfter(o) ==
    IF o.code = 429 THEN (IF o.retry_after.present THEN o.retry_after.delay ELSE 30)
    ELSE IF o.code \in {502, 503, 504} THEN 5
    ELSE 0

\* C23: in wikipedia_ja._http_get_json the sleep after failed attempt k
\* (0-based) is at least base_sleep_sec * 2^k, at least the Retry-After
\* delay after a 429 that has the header, at least 30 s after a 429 that
\* has none, and at least 5 s after a 502, 503 or 504.
Orig_C23_SleepLowerBounds ==
    client = "wikipedia" =>
        \A i \in 1..Len(slept) :
            /\ slept[i] >= base_sleep_sec * Pow2(i - 1)
            /\ slept[i] >= LeastAfter(attempts[i])


\* what a line would give if a line without terminator were kept as it is
\* and a line with terminators gave its non-empty fragments, each closed
ClaimedOfLine(line) ==
    IF ~InList("maru", line) THEN <<line>> ELSE WithTerminator(Parts(line))

RECURSIVE ClaimedCandidates(_)
ClaimedCandidates(lines) ==
    IF lines = <<>> THEN <<>>
    ELSE ClaimedOfLine(lines[1]) \o ClaimedCandidates(Tail(lines))

\* C24: in Other mode a line without the sentence terminator yields the
\* whole line unchanged as its candidate, and a line with terminators
\* yields one candidate per non-empty fragment with the terminator
\* appended again.
Orig_C24_LineFallback ==
    extracted.done =>
        line_candidates = ClaimedCandidates(TextLines(CleanTextPreserveNewlines(plain)))


\* the generator calls made for the current range follow the rule of the
\* try statement: the first is online exactly when the probe succeeded, a
\* second one follows only a failed or timed-out online call after a probe
\* that succeeded and is offline, and an offline call that failed or timed
\* out is the last call and has aborted the run
InvocationRule ==
    script = RAGA =>
        /\ Len(invocations) <= 2
        /\ Len(invocations) >= 1 => invocations[1].online = net_probe
        /\ Len(invocations) = 2 =>
             /\ net_probe
             /\ invocations[1].outcome \in {"timeout", "failed"}
             /\ ~invocations[2].online
        /\ \A i \in 1..Len(invocations) :
             (~invocations[i].online /\ invocations[i].outcome \in {"timeout", "failed"})
                 => (i = Len(invocations) /\ result.how = "raised" /\ step = "ended")

\* the log of a range is only emptied by the start of the next range, and
\* no call is made once the run has been aborted
OneLogPerRange ==
    /\ (script = RAGA /\ Len(invocations') < Len(invocations))
           => (step = "range" /\ Len(invocations) >= 1 /\ invocations[Len(invocations)].outcome = "ok")
    /\ result.how = "raised" => (invocations' = invocations /\ result' = result)

\* C28: for each range refresh_and_generate_all calls the generator at most
\* twice; the first call is online with refresh exactly when the network
\* probe succeeded; a second call is made only when the probe succeeded and
\* the online call timed out or exited non-zero, and it is offline; a
\* timeout or failure of an offline call is never retried and aborts the run.
Thm_C28_AtMostTwoCalls == [](InvocationRule) /\ [][OneLogPerRange]_vars

Wit_C28_OfflineRetryFailed ==
    /\ script = RAGA /\ range_index = 2
    /\ Len(invocations) = 2
    /\ invocations[1].online /\ invocations[1].outcome = "timeout"
    /\ invocations[2].outcome = "failed"
    /\ result = RaisedError("CalledProcessError")

\* the labels of the first k ranges
Labels(k) == [i \in 1..k |-> RANGES[i].label]

\* refresh_and_generate_all: the ranges are generated in the order of
\* RANGES, which is ascending, a range is worked on only when all before it
\* are generated, and the link check runs only after all ten
RangesInOrder ==
    /\ Len(RANGES) = 10
    /\ RANGES[1].label = "0-99" /\ RANGES[Len(RANGES)].label = "900-999"
    /\ \A i \in 1..Len(RANGES) :
         /\ RANGES[i].start = 100 * (i - 1) /\ RANGES[i].end = 100 * i - 1
    /\ script = RAGA =>
         /\ generated = Labels(Len(generated))
         /\ step \in {"range", "generate"} => Len(generated) = range_index - 1
         /\ (step = "link_check" \/ link_check # "none") => generated = Labels(Len(RANGES))
         /\ result.how = "raised" => step = "ended"
         /\ result.how = "returned" => link_check = "ok"

\* full_refresh_generate: the link check runs only after the generator
\* exited with 0; a non-zero exit code of the generator is what main returns
FullInOrder ==
    script = FRG =>
        /\ link_check # "none" => (invocations[1].outcome = "ok" /\ invocations[1].rc = 0)
        /\ (step = "ended" /\ invocations[1].outcome = "failed") =>
              /\ invocations[1].rc # 0
              /\ result = Returned(invocations[1].rc)
              /\ link_check = "none"

\* once main() has ended nothing is started any more
StopsAtFailure ==
    step = "ended" =>
        UNCHANGED <<step, range_index, invocations, generated, link_check, result, hb>>

ReturnsAfterExit ==
    /\ hb = "returned" => (proc.state = "exited" /\ (script = RAGA => proc.rc = 0))
    /\ hb = "called_process_error" =>
           (script = RAGA /\ proc.state = "exited" /\ proc.rc # 0)

\* the timeout error leaves run_with_heartbeat after terminate() was called
\* on the child, and after kill() when the child outlived the five seconds
TimeoutAfterTerminate ==
    hb = "timeout" => (proc.terminated /\ (proc.killed \/ proc.state = "exited"))

\* C30 as stated: run_with_heartbeat returns normally only after the child
\* has exited (in refresh_and_generate_all only with exit code 0), and it
\* raises the timeout error only after termination of the child was
\* requested, terminate first and kill if the child has not exited within
\* five seconds.
Orig_C30_TimeoutAfterTermination == ReturnsAfterExit /\ TimeoutAfterTerminate

\* the timeout error leaves run_with_heartbeat for a child that has exited
\* or was sent terminate() and then kill()
TimeoutChildGone ==
    hb = "timeout" => (proc.state = "exited" \/ (proc.terminated /\ proc.killed))

\* C30, amended: run_with_heartbeat returns normally only after the child
\* has exited; the timeout error leaves it only when the child has exited
\* by itself or termination was requested, terminate first and kill if the
\* child has not exited within five seconds.
Thm_C30_NoChildLeftRunning == ReturnsAfterExit /\ TimeoutChildGone

Wit_C30_KilledAfterTimeout ==
    /\ hb = "timeout" /\ proc.state = "running"
    /\ proc.terminated /\ proc.killed

====
